---- MODULE Spec2Model ----
(***************************************************************************)
(* Scanner orchestration engine of the domain risk assessment tool:        *)
(* the registry SCANNERS, setScannerTimeout, withTimeout, runAllScanners   *)
(* and runScanner of src/utils/scanners/index.ts, on a JavaScript event    *)
(* loop (macrotasks: timers and I/O completions; microtasks: promise       *)
(* reactions, run in FIFO order before the next macrotask).                *)
(***************************************************************************)
EXTENDS Integers, Sequences, FiniteSets, TLC

\* ---------------------------------------------------------------- bounds
\* most descriptors in the SCANNERS array
MaxScanners == 2

\* ------------------------------------------------------- optional values
\* a JavaScript value that may be undefined: <<>> is undefined, <<v>> is v
None == <<>>
Some(v) == <<v>>

\* ---------------------------------------------------------------- strings
\* a raw domain is a sequence of the characters blank, "A" and "a"
\* the raw domain arguments of runAllScanners
Domains == {<<"a">>, <<"A", " ">>, <<" ", "A", " ">>}

RECURSIVE TrimStart(_)
\* String.prototype.trim, leading part
TrimStart(s) ==
    IF s # <<>> /\ Head(s) = " " THEN TrimStart(Tail(s)) ELSE s

RECURSIVE TrimEnd(_)
\* String.prototype.trim, trailing part
TrimEnd(s) ==
    IF s # <<>> /\ s[Len(s)] = " " THEN TrimEnd(SubSeq(s, 1, Len(s) - 1)) ELSE s

\* String.prototype.trim
Trim(s) == TrimEnd(TrimStart(s))

\* String.prototype.toLowerCase
ToLowerCase(s) == [i \in DOMAIN s |-> IF s[i] = "A" THEN "a" ELSE s[i]]

\* domain.trim().toLowerCase()
Normalize(domain) == ToLowerCase(Trim(domain))

\* ------------------------------------------------------------- registry
\* ids of the shipped scanners, in the order of the SCANNERS array literal
ShippedIds ==
    <<"dns", "emailAuth", "certificates", "rdap", "sslLabs", "securityHeaders">>

\* label of each shipped scanner
LabelOf(id) ==
    CASE id = "dns" -> "DNS Records"
      [] id = "emailAuth" -> "Email Authentication"
      [] id = "certificates" -> "SSL/TLS Certificates"
      [] id = "rdap" -> "Domain Registration (RDAP)"
      [] id = "sslLabs" -> "SSL/TLS Configuration"
      [] OTHER -> "Security Headers"

\* timeout (ms) each shipped scanner declares
ShippedTimeout(id) ==
    CASE id = "dns" -> 5000
      [] id = "emailAuth" -> 10000
      [] id = "certificates" -> 15000
      [] id = "rdap" -> 10000
      [] id = "sslLabs" -> 600000
      [] OTHER -> 15000

\* what a descriptor's run(domain) promise does:
\*   resolveIssues   resolves before the timeout, outcome.issues non-empty
\*   resolveEmpty    resolves before the timeout, outcome.issues = []
\*   resolveNoIssues resolves before the timeout, outcome has no issues field
\*   reject          rejects before the timeout with an Error
\*   rejectNonError  rejects before the timeout with a value that is no Error
\*   late            resolves only after the timeout timer has fired
\*   never           never settles
ResolvingRuns == {"resolveIssues", "resolveEmpty", "resolveNoIssues"}
RejectingRuns == {"reject", "rejectNonError"}
InTimeRuns == ResolvingRuns \cup RejectingRuns
Behaviours == InTimeRuns \cup {"late", "never"}

\* a scanner descriptor: hasDerive tells whether deriveIssues is defined,
\* run is the behaviour of the promise its run(domain) returns
Descriptor(id, timeout, hasDerive, run) ==
    [id |-> id, timeout |-> timeout, hasDerive |-> hasDerive, run |-> run]

\* ids of the descriptors offered for registration
RegisteredIds == {ShippedIds[1], ShippedIds[2]}

\* the descriptors offered for registration in the orchestration runs: a
\* shipped id with its shipped timeout and any behaviour of run; deriveIssues
\* is only ever consulted for an outcome without an issues field
Candidates ==
    {Descriptor(id, Some(ShippedTimeout(id)), FALSE, run) :
        id \in RegisteredIds, run \in Behaviours}
    \cup {Descriptor(id, Some(ShippedTimeout(id)), TRUE, "resolveNoIssues") :
        id \in RegisteredIds}

\* the set of elements of a sequence
Range(seq) == {seq[i] : i \in DOMAIN seq}

\* the descriptors offered in the runs that end with a rerun: a shipped
\* scanner with its shipped timeout, run resolving with or without an issues
\* field, rejecting or never settling
RerunCandidates ==
    {Descriptor(id, Some(ShippedTimeout(id)), FALSE, run) :
        id \in Range(ShippedIds),
        run \in {"resolveIssues", "resolveNoIssues", "reject", "never"}}
    \cup {Descriptor(id, Some(ShippedTimeout(id)), TRUE, "resolveNoIssues") :
        id \in Range(ShippedIds)}

\* the descriptors offered in the runs about timeouts: a shipped scanner with
\* its shipped timeout or with none, run resolving at once or never settling
ConfigCandidates ==
    UNION {{Descriptor(id, timeout, FALSE, run) :
                timeout \in {None, Some(ShippedTimeout(id))},
                run \in {"resolveIssues", "never"}} :
           id \in Range(ShippedIds)}

\* ------------------------------------------------------ values and errors
\* text of an error message; label and ms are the interpolated parts
Message(text, label, ms) == [text |-> text, label |-> label, ms |-> ms]

\* `${scannerLabel} timed out after ${timeoutMs}ms`
TimeoutMessage(label, ms) == Message("timed out after", label, ms)

\* a thrown value: an Error carrying a message, or something else
Thrown(isError, message) == [isError |-> isError, message |-> message]

\* err instanceof Error ? err.message : 'Unknown error'
ErrorMessage(err) ==
    IF err.isError THEN err.message ELSE Message("Unknown error", "", 0)

\* what a scanner's run rejects with
RunRejection(scanner) ==
    Thrown(scanner.run = "reject", Message("scan failed", scanner.id, 0))

\* what a throwing progress callback throws
CallbackError == Thrown(TRUE, Message("callback failed", "", 0))

\* one issue string; domain is the domain it was computed for, if any
Issue(text, id, domain) == [text |-> text, id |-> id, domain |-> domain]

\* the ScanOutcome scanner.run(domain) resolves with
RunOutcome(scanner, domain) ==
    [data |-> [scanner |-> scanner.id, domain |-> domain],
     summary |-> <<"summary", scanner.id>>,
     issues |-> CASE scanner.run = "resolveNoIssues" -> None
                  [] scanner.run = "resolveEmpty" -> Some(<<>>)
                  [] OTHER -> Some(<<Issue("found", scanner.id, <<>>)>>)]

\* scanner.deriveIssues(r, domain)
DeriveIssues(scanner, r, domain) == <<Issue("derived", scanner.id, domain)>>

\* r.issues || scanner.deriveIssues?.(r, domain) || []
FinalIssues(scanner, r, domain) ==
    IF r.issues # None THEN r.issues[1]
    ELSE IF scanner.hasDerive THEN DeriveIssues(scanner, r, domain)
    ELSE <<>>

\* scanner.timeout ?? DEFAULT_SCANNER_TIMEOUT
EffectiveTimeout(scanner, default) ==
    IF scanner.timeout # None THEN scanner.timeout[1] ELSE default

\* ---------------------------------------------------------------- state
VARIABLES
    SCANNERS,                 \* the registry array
    DEFAULT_SCANNER_TIMEOUT,  \* module-level default timeout (ms)
    now,                      \* wall clock (ms)
    pc,                       \* runAllScanners: idle, running, resolved, rejected
    onProgress,               \* the progress callback argument of the call
    trimmed,                  \* normalized domain of the call
    results,                  \* the results array of the call
    tasks,                    \* per scanner: run promise, timer, race, chain
    microtasks,               \* FIFO queue of pending promise reactions
    progressCalls,            \* what each onProgress invocation was shown
    aggregate,                \* the DomainScanAggregate the call resolved to
    timeoutCall,              \* the latest setScannerTimeout call and its outcome
    rerun,                    \* the runScanner call made after the scan
    interp,                   \* an interpretScannerResult call: argument and result
    app,                      \* AppStateProvider: React state, storage, cache, calls
    dkim,                     \* DKIM selector service: localStorage and the calls made
    probe,                    \* one scanner's run(domain): its locals, requests, outcome
    calc                      \* one evaluation of a scanner's analysis: fn, arg, out

\* the state of the orchestrator
scanVars ==
    <<SCANNERS, DEFAULT_SCANNER_TIMEOUT, now, pc, onProgress, trimmed,
      results, tasks, microtasks, progressCalls, aggregate, timeoutCall, rerun>>

\* the state of the other parts of the program
others == <<interp, app, dkim, probe, calc>>

\* the variables an action on one of them leaves alone
besidesInterp == <<app, dkim, probe, calc>>
besidesApp == <<interp, dkim, probe, calc>>
besidesDkim == <<interp, app, probe, calc>>
besidesProbe == <<interp, app, dkim, calc>>
besidesCalc == <<interp, app, dkim, probe>>

vars == <<scanVars, others>>

\* the progress callbacks a caller may pass:
\*   absent       no callback (onProgress undefined)
\*   quiet        returns normally
\*   throwOnError throws when the list it is given holds an error result
\*   throwAlways  throws on every invocation
Callbacks == {"absent", "quiet", "throwOnError", "throwAlways"}

\* does callback cb throw when invoked with list
CallbackThrows(cb, list) ==
    CASE cb = "throwAlways" -> TRUE
      [] cb = "throwOnError" -> \E j \in DOMAIN list : list[j].status = "error"
      [] OTHER -> FALSE

\* record of one invocation: the scanner whose handler made it (0 for the
\* initial one) and the statuses the list showed
Invocation(by, list) ==
    [by |-> by, seen |-> [j \in DOMAIN list |-> list[j].status],
     shown |-> [j \in DOMAIN list |->
                  [status |-> list[j].status, data |-> list[j].data,
                   issues |-> list[j].issues]]]

\* onProgress?.([...results]): the invocation log afterwards
Notify(cb, by, list, log) ==
    IF cb = "absent" THEN log ELSE Append(log, Invocation(by, list))

\* a base result that takes its id from the head of the registry instead of
\* from its own scanner
NewResultHeadId(scanner, start) ==
    [id |-> SCANNERS[1].id,
     label |-> LabelOf(scanner.id),
     status |-> "running",
     startedAt |-> start,
     finishedAt |-> None,
     data |-> None,
     summary |-> None,
     issues |-> <<>>,
     error |-> None]

\* the base ExecutedScannerResult pushed for a scanner at dispatch
NewResult(scanner, start) ==
    [id |-> scanner.id,
     label |-> LabelOf(scanner.id),
     status |-> "running",
     startedAt |-> start,
     finishedAt |-> None,
     data |-> None,
     summary |-> None,
     issues |-> <<>>,
     error |-> None]

\* Object.assign(base, r, { status: 'complete', issues, finishedAt })
Complete(base, r, issues, time) ==
    [base EXCEPT !.data = Some(r.data),
                 !.summary = Some(r.summary),
                 !.status = "complete",
                 !.issues = issues,
                 !.finishedAt = Some(time)]

\* base.status = 'error'; base.error = ...; base.finishedAt = ...
Fail(base, err, time) ==
    [base EXCEPT !.status = "error",
                 !.error = Some(ErrorMessage(err)),
                 !.finishedAt = Some(time)]

\* state of one dispatched scanner: its run promise, its timeout timer, the
\* Promise.race of the two, and the .then().catch() chain built on the race
NewTask(scanner, default) ==
    [run |-> "pending",
     timer |-> "armed",
     timeoutMs |-> EffectiveTimeout(scanner, default),
     race |-> "pending",
     value |-> None,
     reason |-> None,
     chain |-> "pending"]

\* a queued promise reaction of scanner i's chain
Reaction(i, stage, reason) == [i |-> i, stage |-> stage, reason |-> reason]

RECURSIVE FlatIssuesBackwards(_)
\* FlatIssues gone wrong: the lists are joined last scanner first
FlatIssuesBackwards(list) ==
    IF list = <<>> THEN <<>>
    ELSE FlatIssuesBackwards(Tail(list)) \o Head(list).issues

RECURSIVE FlatIssues(_)
\* results.flatMap((r) => r.issues || [])
FlatIssues(list) ==
    IF list = <<>> THEN <<>> ELSE Head(list).issues \o FlatIssues(Tail(list))

\* a JavaScript number: a finite value, NaN, Infinity or -Infinity
Num(kind, v) == [kind |-> kind, v |-> v]

\* the arguments setScannerTimeout is called with
TimeoutArgs ==
    {Num("finite", v) : v \in {-1, 0, 1000}}
    \cup {Num("NaN", 0), Num("Infinity", 0), Num("-Infinity", 0)}

\* ms <= 0
NotPositive(ms) ==
    \/ ms.kind = "finite" /\ ms.v <= 0
    \/ ms.kind = "-Infinity"

\* Number.isFinite(ms)
IsFinite(ms) == ms.kind = "finite"

\* the state of runScanner before it is called
NoRerun ==
    [pc |-> "idle", idx |-> 0, domain |-> <<>>, startedAt |-> 0,
     timeoutMs |-> 0, run |-> "none", timer |-> "none", result |-> None]

\* SCANNERS.find((s) => s.id === scannerId): the position found, if any
FindScanner(scannerId) ==
    LET hits == {i \in DOMAIN SCANNERS : SCANNERS[i].id = scannerId}
    IN IF hits = {} THEN None
       ELSE Some(CHOOSE i \in hits : \A j \in hits : i <= j)

\* the result runScanner returns when the race is won by the run
RerunComplete(scanner, start, r, domain, time) ==
    [id |-> scanner.id,
     label |-> LabelOf(scanner.id),
     status |-> "complete",
     startedAt |-> start,
     finishedAt |-> Some(time),
     data |-> Some(r.data),
     summary |-> Some(r.summary),
     issues |-> Some(FinalIssues(scanner, r, domain)),
     error |-> None]

\* the result runScanner returns from its catch block
RerunError(scanner, start, err, time) ==
    [id |-> scanner.id,
     label |-> LabelOf(scanner.id),
     status |-> "error",
     startedAt |-> start,
     finishedAt |-> Some(time),
     data |-> None,
     summary |-> None,
     issues |-> None,
     error |-> Some(ErrorMessage(err))]

\* no interpretScannerResult call has been made
NoInterp == [scanner |-> None, out |-> None]

\* the domains given to runScanners
AppDomains == {<<"a">>, <<"A", " ">>}

\* AppStateProvider as mounted on empty storage, with an empty scan cache
AppInit ==
    [pc |-> "idle",                  \* idle, or running between dispatch and resumption
     domain |-> None,                \* the argument of the latest call
     domainScanAggregate |-> None,   \* React state
     progress |-> <<>>,              \* scannerProgress as set by runScanners itself
     stored |-> None,                \* localStorage[DOMAIN_AGG_KEY]
     cache |-> [d \in AppDomains |-> None],
     calls |-> 0,                    \* runScanners calls made
     last |-> "none",                \* how the latest call ended: cached, denied, fresh
     error |-> None,                 \* the error the latest call threw
     rateChecks |-> 0,               \* checkRateLimit calls made
     answer |-> None,                \* what the latest checkRateLimit call answered
     runs |-> 0,                     \* runAllScanners calls made
     persists |-> 0,                 \* persist calls made
     currentDomain |-> None,         \* DomainScanner's state currentDomain
     rescan |-> None,                \* the latest handleSaveDkimSelectors call
     customSelectors |-> [d \in AppDomains |-> None]]
                                     \* customSelectors of the emailAuth run of
                                     \* the latest fresh scan of a domain

\* the domains given to the DKIM selector service
DkimDomains == {"", "a.com", "b.org"}

\* an empty localStorage and no call made yet
DkimInit ==
    [storage |-> [d \in DkimDomains |-> None],   \* by key dkim_selectors_<domain>
     log |-> <<>>,                               \* save and delete calls, with what they returned
     got |-> None]                               \* the latest getDkimSelectors call

\* a data payload none of whose fields is set
EmptyData ==
    [error |-> None, status |-> None, lowestGrade |-> None, grade |-> None,
     certCount |-> None, expiringIn7Days |-> None, expiringIn30Days |-> None,
     hasSpf |-> None, hasDmarc |-> None, hasDkim |-> None, dmarcEnforced |-> None]

\* no analysis is being evaluated
NoCalc == [fn |-> "none", arg |-> None, out |-> None]

\* the evaluation of analysis fn on arg, about to be made
Calc(fn, arg) == [fn |-> fn, arg |-> arg, out |-> None]

\* no scanner's run has been called
ProbeInit ==
    [scanner |-> "none",     \* id of the scanner whose run was called
     pc |-> "idle",          \* the await the run is at, or resolved, rejected
     domain |-> <<>>,        \* the argument of run
     requests |-> <<>>,      \* the URLs fetched so far
     failed |-> FALSE,       \* whether a request failed or brought a body of no use
     records |-> <<>>,       \* what the requests answered so far gave
     bootstrapData |-> None, \* bootstrapData
     servers |-> <<>>,       \* rdapServers
     lastError |-> None,     \* lastError
     status |-> None,        \* result.status of the latest analysis fetched
     pollCount |-> 0,        \* pollCount
     clock |-> 0,            \* ms since run was called
     due |-> 0,              \* when the awaited response or timer is due
     watchdog |-> "none",    \* withTimeout's timer: none, armed, fired
     race |-> "none",        \* withTimeout's race: none, pending, fulfilled, rejected
     result |-> None,        \* the ExecutedScannerResult the orchestrator ends with
     outcome |-> None]       \* the ScanOutcome run resolved with

\* the other parts of the program before their first call
RestIdle ==
    /\ app = AppInit
    /\ dkim = DkimInit
    /\ probe = ProbeInit
    /\ calc = NoCalc

\* the orchestrator module as loaded
ScanInit ==
    /\ SCANNERS = <<>>
    /\ DEFAULT_SCANNER_TIMEOUT = 30000
    /\ now = 0
    /\ pc = "idle"
    /\ onProgress = "absent"
    /\ trimmed = None
    /\ results = <<>>
    /\ tasks = <<>>
    /\ microtasks = <<>>
    /\ progressCalls = <<>>
    /\ aggregate = None
    /\ timeoutCall = None
    /\ rerun = NoRerun

Init ==
    /\ ScanInit
    /\ interp = NoInterp
    /\ RestIdle

\* descriptor d is the next entry of the shipped SCANNERS array literal
InShippedOrder(d) ==
    /\ Len(SCANNERS) < Len(ShippedIds)
    /\ d.id = ShippedIds[Len(SCANNERS) + 1]

\* a descriptor is added to the SCANNERS array
Register(d) ==
    /\ pc = "idle"
    /\ Len(SCANNERS) < MaxScanners
    /\ SCANNERS' = Append(SCANNERS, d)
    /\ UNCHANGED <<timeoutCall, rerun, DEFAULT_SCANNER_TIMEOUT, now, pc, onProgress, trimmed,
                   results, tasks, microtasks, progressCalls, aggregate>>
    /\ UNCHANGED others

\* RunAllScanners gone wrong: the initial progress callback is left out
RunAllScannersNoInitial(domain, cb) ==
    /\ pc = "idle"
    /\ results' = [i \in DOMAIN SCANNERS |-> NewResult(SCANNERS[i], now)]
    /\ progressCalls' = progressCalls
    /\ pc' = "running"
    /\ trimmed' = Some(Normalize(domain))
    /\ onProgress' = cb
    /\ tasks' = [i \in DOMAIN SCANNERS |->
                    NewTask(SCANNERS[i], DEFAULT_SCANNER_TIMEOUT)]
    /\ UNCHANGED <<timeoutCall, rerun, SCANNERS, DEFAULT_SCANNER_TIMEOUT, now, microtasks, aggregate>>
    /\ UNCHANGED others

\* runAllScanners(domain, cb) up to its await: dispatch of every scanner and
\* the initial progress callback
RunAllScanners(domain, cb) ==
    /\ pc = "idle"
    /\ LET base == [i \in DOMAIN SCANNERS |-> NewResult(SCANNERS[i], now)]
       IN /\ results' = base
          /\ progressCalls' = Notify(cb, 0, base, progressCalls)
          /\ pc' = IF CallbackThrows(cb, base) THEN "rejected" ELSE "running"
    /\ trimmed' = Some(Normalize(domain))
    /\ onProgress' = cb
    /\ tasks' = [i \in DOMAIN SCANNERS |->
                    NewTask(SCANNERS[i], DEFAULT_SCANNER_TIMEOUT)]
    /\ UNCHANGED <<timeoutCall, rerun, SCANNERS, DEFAULT_SCANNER_TIMEOUT, now, microtasks, aggregate>>
    /\ UNCHANGED others

\* the promise returned by scanner i's run settles
RunSettles(i) ==
    /\ pc # "idle"
    /\ tasks[i].run = "pending"
    /\ SCANNERS[i].run # "never"
    /\ SCANNERS[i].run \in InTimeRuns => tasks[i].timer = "armed"
    /\ SCANNERS[i].run = "late" => tasks[i].timer = "fired"
    /\ LET ok == SCANNERS[i].run \notin RejectingRuns
           first == tasks[i].race = "pending"
       IN /\ tasks' = [tasks EXCEPT ![i] =
                IF ~first THEN [@ EXCEPT !.run = "settled"]
                ELSE IF ok
                THEN [@ EXCEPT !.run = "settled", !.race = "fulfilled",
                               !.value = Some(RunOutcome(SCANNERS[i], trimmed[1]))]
                ELSE [@ EXCEPT !.run = "settled", !.race = "rejected",
                               !.reason = Some(RunRejection(SCANNERS[i]))]]
          /\ microtasks' = IF first THEN Append(microtasks, Reaction(i, "then", None))
                           ELSE microtasks
    /\ UNCHANGED <<timeoutCall, rerun, SCANNERS, DEFAULT_SCANNER_TIMEOUT, now, pc, onProgress,
                   trimmed, results, progressCalls, aggregate>>
    /\ UNCHANGED others

\* every reaction queued has run and the call's continuation is not pending
Quiescent ==
    /\ microtasks = <<>>
    /\ ~(pc = "running" /\ \A j \in DOMAIN tasks : tasks[j].chain # "pending")

\* TimerFires gone wrong: the timer does not wait for its delay
TimerFiresEarly(i) ==
    /\ pc # "idle"
    /\ Quiescent
    /\ tasks[i].timer = "armed"
    /\ LET first == tasks[i].race = "pending"
       IN /\ tasks' = [tasks EXCEPT ![i] =
                IF ~first THEN [@ EXCEPT !.timer = "fired"]
                ELSE [@ EXCEPT !.timer = "fired", !.race = "rejected",
                               !.reason = Some(Thrown(TRUE,
                                   TimeoutMessage(LabelOf(SCANNERS[i].id), tasks[i].timeoutMs)))]]
          /\ microtasks' = IF first THEN Append(microtasks, Reaction(i, "then", None))
                           ELSE microtasks
    /\ UNCHANGED <<timeoutCall, rerun, SCANNERS, DEFAULT_SCANNER_TIMEOUT, now, pc, onProgress,
                   trimmed, results, tasks, progressCalls, aggregate>>
    /\ UNCHANGED others

\* the setTimeout callback of scanner i's withTimeout runs
TimerFires(i) ==
    /\ pc # "idle"
    /\ Quiescent
    /\ tasks[i].timer = "armed"
    /\ now >= results[i].startedAt + tasks[i].timeoutMs
    /\ LET first == tasks[i].race = "pending"
       IN /\ tasks' = [tasks EXCEPT ![i] =
                IF ~first THEN [@ EXCEPT !.timer = "fired"]
                ELSE [@ EXCEPT !.timer = "fired", !.race = "rejected",
                               !.reason = Some(Thrown(TRUE,
                                   TimeoutMessage(LabelOf(SCANNERS[i].id), tasks[i].timeoutMs)))]]
          /\ microtasks' = IF first THEN Append(microtasks, Reaction(i, "then", None))
                           ELSE microtasks
    /\ UNCHANGED <<timeoutCall, rerun, SCANNERS, DEFAULT_SCANNER_TIMEOUT, now, pc, onProgress,
                   trimmed, results, progressCalls, aggregate>>
    /\ UNCHANGED others

\* the .then reaction of a fulfilled race: merge the outcome, notify
ThenHandler ==
    /\ microtasks # <<>>
    /\ Head(microtasks).stage = "then"
    /\ LET i == Head(microtasks).i
           scanner == SCANNERS[i]
           r == tasks[i].value[1]
           issues == FinalIssues(scanner, r, trimmed[1])
           after == [results EXCEPT ![i] = Complete(@, r, issues, now)]
       IN /\ tasks[i].race = "fulfilled"
          /\ results' = after
          /\ progressCalls' = Notify(onProgress, i, after, progressCalls)
          /\ IF CallbackThrows(onProgress, after)
             THEN /\ microtasks' = Append(Tail(microtasks),
                                          Reaction(i, "catch", Some(CallbackError)))
                  /\ tasks' = tasks
             ELSE /\ microtasks' = Tail(microtasks)
                  /\ tasks' = [tasks EXCEPT ![i].chain = "fulfilled"]
    /\ UNCHANGED <<timeoutCall, rerun, SCANNERS, DEFAULT_SCANNER_TIMEOUT, now, pc, onProgress,
                   trimmed, aggregate>>
    /\ UNCHANGED others

\* the .then stage of a rejected race: the rejection passes on to .catch
ThenSkipped ==
    /\ microtasks # <<>>
    /\ Head(microtasks).stage = "then"
    /\ LET i == Head(microtasks).i
       IN /\ tasks[i].race = "rejected"
          /\ microtasks' = Append(Tail(microtasks),
                                  Reaction(i, "catch", tasks[i].reason))
    /\ UNCHANGED <<timeoutCall, rerun, SCANNERS, DEFAULT_SCANNER_TIMEOUT, now, pc, onProgress,
                   trimmed, results, tasks, progressCalls, aggregate>>
    /\ UNCHANGED others

\* the .catch reaction: record the error, notify
CatchHandler ==
    /\ microtasks # <<>>
    /\ Head(microtasks).stage = "catch"
    /\ LET i == Head(microtasks).i
           err == Head(microtasks).reason[1]
           after == [results EXCEPT ![i] = Fail(@, err, now)]
       IN /\ results' = after
          /\ progressCalls' = Notify(onProgress, i, after, progressCalls)
          /\ tasks' = [tasks EXCEPT ![i].chain =
                IF CallbackThrows(onProgress, after) THEN "rejected" ELSE "fulfilled"]
    /\ microtasks' = Tail(microtasks)
    /\ UNCHANGED <<timeoutCall, rerun, SCANNERS, DEFAULT_SCANNER_TIMEOUT, now, pc, onProgress,
                   trimmed, aggregate>>
    /\ UNCHANGED others

\* Finish gone wrong: the call goes on as soon as one chain has settled
FinishOnFirst ==
    /\ pc = "running"
    /\ microtasks = <<>>
    /\ \E j \in DOMAIN tasks : tasks[j].chain # "pending"
    /\ aggregate' = Some([domain |-> trimmed[1],
                          timestamp |-> now,
                          issues |-> FlatIssues(results)])
    /\ pc' = "resolved"
    /\ UNCHANGED <<timeoutCall, rerun, SCANNERS, DEFAULT_SCANNER_TIMEOUT, now, onProgress, trimmed,
                   results, tasks, microtasks, progressCalls>>
    /\ UNCHANGED others

\* the continuation after await Promise.allSettled(scannerPromises)
Finish ==
    /\ pc = "running"
    /\ microtasks = <<>>
    /\ \A j \in DOMAIN tasks : tasks[j].chain # "pending"
    /\ aggregate' = Some([domain |-> trimmed[1],
                          timestamp |-> now,
                          issues |-> FlatIssues(results)])
    /\ pc' = "resolved"
    /\ UNCHANGED <<timeoutCall, rerun, SCANNERS, DEFAULT_SCANNER_TIMEOUT, now, onProgress, trimmed,
                   results, tasks, microtasks, progressCalls>>
    /\ UNCHANGED others

\* SetScannerTimeout gone wrong: the Number.isFinite test is left out
SetScannerTimeoutUnchecked(ms) ==
    /\ pc \in {"idle", "running"}
    /\ IF NotPositive(ms)
       THEN /\ timeoutCall' = Some([ms |-> ms, threw |-> TRUE])
            /\ UNCHANGED DEFAULT_SCANNER_TIMEOUT
       ELSE /\ timeoutCall' = Some([ms |-> ms, threw |-> FALSE])
            /\ DEFAULT_SCANNER_TIMEOUT' = ms.v
    /\ UNCHANGED <<SCANNERS, now, pc, onProgress, trimmed, results, tasks,
                   microtasks, progressCalls, aggregate, rerun>>
    /\ UNCHANGED others

\* setScannerTimeout(ms), called before or during the scan
SetScannerTimeout(ms) ==
    /\ pc \in {"idle", "running"}
    /\ IF NotPositive(ms) \/ ~IsFinite(ms)
       THEN /\ timeoutCall' = Some([ms |-> ms, threw |-> TRUE])
            /\ UNCHANGED DEFAULT_SCANNER_TIMEOUT
       ELSE /\ timeoutCall' = Some([ms |-> ms, threw |-> FALSE])
            /\ DEFAULT_SCANNER_TIMEOUT' = ms.v
    /\ UNCHANGED <<SCANNERS, now, pc, onProgress, trimmed, results, tasks,
                   microtasks, progressCalls, aggregate, rerun>>
    /\ UNCHANGED others

\* runScanner(domain, scannerId) up to its await, called once the scan of
\* all scanners has resolved
RunScanner(domain, scannerId) ==
    /\ pc = "resolved"
    /\ rerun.pc = "idle"
    /\ LET found == FindScanner(scannerId)
       IN rerun' =
            IF found = None THEN [rerun EXCEPT !.pc = "rejected"]
            ELSE [pc |-> "running",
                  idx |-> found[1],
                  domain |-> domain,
                  startedAt |-> now,
                  timeoutMs |-> EffectiveTimeout(SCANNERS[found[1]],
                                                 DEFAULT_SCANNER_TIMEOUT),
                  run |-> "pending",
                  timer |-> "armed",
                  result |-> None]
    /\ UNCHANGED <<SCANNERS, DEFAULT_SCANNER_TIMEOUT, now, pc, onProgress,
                   trimmed, results, tasks, microtasks, progressCalls,
                   aggregate, timeoutCall>>
    /\ UNCHANGED others

\* the run promise of the runScanner call settles; when it wins the race the
\* function returns from its try block (resolved) or its catch block (rejected)
RerunSettles ==
    /\ rerun.run = "pending"
    /\ LET scanner == SCANNERS[rerun.idx]
           r == RunOutcome(scanner, Normalize(rerun.domain))
       IN /\ scanner.run # "never"
          /\ scanner.run \in InTimeRuns => rerun.timer = "armed"
          /\ scanner.run = "late" => rerun.timer = "fired"
          /\ rerun' =
               IF rerun.pc # "running" THEN [rerun EXCEPT !.run = "settled"]
               ELSE [rerun EXCEPT
                       !.run = "settled",
                       !.pc = "resolved",
                       !.result = Some(
                           IF scanner.run \in RejectingRuns
                           THEN RerunError(scanner, rerun.startedAt,
                                           RunRejection(scanner), now)
                           ELSE RerunComplete(scanner, rerun.startedAt, r,
                                              rerun.domain, now))]
    /\ UNCHANGED <<SCANNERS, DEFAULT_SCANNER_TIMEOUT, now, pc, onProgress,
                   trimmed, results, tasks, microtasks, progressCalls,
                   aggregate, timeoutCall>>
    /\ UNCHANGED others

\* the setTimeout callback of the runScanner call's withTimeout runs
RerunTimerFires ==
    /\ rerun.timer = "armed"
    /\ Quiescent
    /\ now >= rerun.startedAt + rerun.timeoutMs
    /\ LET scanner == SCANNERS[rerun.idx]
       IN rerun' =
            IF rerun.pc # "running" THEN [rerun EXCEPT !.timer = "fired"]
            ELSE [rerun EXCEPT
                    !.timer = "fired",
                    !.pc = "resolved",
                    !.result = Some(RerunError(scanner, rerun.startedAt,
                        Thrown(TRUE, TimeoutMessage(LabelOf(scanner.id),
                                                    rerun.timeoutMs)),
                        now))]
    /\ UNCHANGED <<SCANNERS, DEFAULT_SCANNER_TIMEOUT, now, pc, onProgress,
                   trimmed, results, tasks, microtasks, progressCalls,
                   aggregate, timeoutCall>>
    /\ UNCHANGED others

\* deadlines of the timers still armed
Deadlines ==
    {results[j].startedAt + tasks[j].timeoutMs :
        j \in {k \in DOMAIN tasks : tasks[k].timer = "armed"}}
    \cup {rerun.startedAt + rerun.timeoutMs : x \in {y \in {1} : rerun.timer = "armed"}}

\* deadlines that a run settling before its timeout has yet to meet
InTimeDeadlines ==
    {results[j].startedAt + tasks[j].timeoutMs :
        j \in {k \in DOMAIN tasks : /\ SCANNERS[k].run \in InTimeRuns
                                    /\ tasks[k].run = "pending"}}
    \cup {rerun.startedAt + rerun.timeoutMs :
            x \in {y \in {1} : /\ rerun.run = "pending"
                               /\ SCANNERS[rerun.idx].run \in InTimeRuns}}

\* time passes up to the next timer deadline; a timer that is due fires
\* before time passes, and a run that settles before its timeout has settled
\* by the time its deadline is reached
Advance ==
    /\ pc # "idle"
    /\ Quiescent
    /\ \A t \in Deadlines : t > now
    /\ Deadlines # {}
    /\ LET next == CHOOSE t \in Deadlines : \A u \in Deadlines : t <= u
       IN /\ \A t \in InTimeDeadlines : t > next
          /\ now' = next
    /\ UNCHANGED <<SCANNERS, DEFAULT_SCANNER_TIMEOUT, pc, onProgress, trimmed,
                   results, tasks, microtasks, progressCalls, aggregate,
                   timeoutCall, rerun>>
    /\ UNCHANGED others

\* the steps of a runAllScanners call and of the event loop under it
Orchestrate ==
    \/ \E domain \in Domains, cb \in Callbacks : RunAllScanners(domain, cb)
    \/ \E i \in DOMAIN tasks : RunSettles(i)
    \/ \E i \in DOMAIN tasks : TimerFires(i)
    \/ ThenHandler
    \/ ThenSkipped
    \/ CatchHandler
    \/ Finish
    \/ Advance

\* the steps of a runScanner call
Rerun ==
    \/ \E domain \in Domains, id \in RegisteredIds \cup {"unknown"} :
          RunScanner(domain, id)
    \/ RerunSettles
    \/ RerunTimerFires

Next ==
    \/ \E d \in Candidates : Register(d)
    \/ Orchestrate

Spec == Init /\ [][Next]_vars

\* runs of a scan followed by a rerun of one scanner
\* the same, with the scheduling the event loop guarantees: a queued
\* reaction runs, a due timer fires, time passes, and a run that settles
\* does settle
Progress ==
    \/ \E i \in DOMAIN tasks : RunSettles(i)
    \/ \E i \in DOMAIN tasks : TimerFires(i)
    \/ ThenHandler
    \/ ThenSkipped
    \/ CatchHandler
    \/ Finish
    \/ Advance
    \/ RerunSettles
    \/ RerunTimerFires

NextTimeout ==
    \/ \E d \in ConfigCandidates : InShippedOrder(d) /\ Register(d)
    \/ Orchestrate
    \/ Rerun

SpecTimeout == Init /\ [][NextTimeout]_vars /\ WF_vars(Progress)

NextRerun ==
    \/ \E d \in RerunCandidates : InShippedOrder(d) /\ Register(d)
    \/ Orchestrate
    \/ Rerun

SpecRerun == Init /\ [][NextRerun]_vars

\* runs in which scanners may lack a timeout of their own and the default
\* timeout is reconfigured
NextConfig ==
    \/ \E d \in ConfigCandidates : InShippedOrder(d) /\ Register(d)
    \/ \E ms \in TimeoutArgs : SetScannerTimeout(ms)
    \/ Orchestrate

SpecConfig == Init /\ [][NextConfig]_vars

\* ---------------------------------------------------------- interpretation
\* A text is the list of its words; toLowerCase() acts word by word and
\* includes() looks for a run of words.
LowerWord(w) ==
    CASE w = "Domain" -> "domain"
      [] w = "No" -> "no"
      [] w = "DNSSEC" -> "dnssec"
      [] w = "v=DMARC1" -> "v=dmarc1"
      [] w = "P=" -> "p="
      [] w = "REJECT" -> "reject"
      [] OTHER -> w

LowerWords(text) == [k \in DOMAIN text |-> LowerWord(text[k])]

Includes(text, phrase) ==
    \E k \in 0..(Len(text) - Len(phrase)) :
        SubSeq(text, k + 1, k + Len(phrase)) = phrase

\* issue texts the RDAP scanner produces
IssueExpired == <<"Domain", "expired", "3", "days", "ago">>
IssueExpiresSoon == <<"Domain", "expires", "in", "10", "days", "-", "renew", "soon!">>
IssueNoNameservers == <<"No", "nameservers", "found", "-", "domain", "cannot", "resolve">>
IssueDnssec == <<"DNSSEC", "is", "not", "enabled">>

\* data?.field
Field(data, f) == IF data = None THEN None ELSE data[1][f]

\* value || 0
OrZero(opt) == IF opt = None THEN 0 ELSE opt[1]

\* the truthiness of an optional boolean
Truthy(opt) == opt # None /\ opt[1]

\* an ExecutedScannerResult as interpretScannerResult reads it
ScannerOf(id, status, issues, data) ==
    [id |-> id, status |-> status, issues |-> issues, data |-> data]

interpretDnsResult(scanner, issueCount) ==
    IF issueCount = 0 THEN "success"
    ELSE IF issueCount <= 2 THEN "warning"
    ELSE "critical"

\* a variant that reads the issue count instead of the data flags
interpretEmailAuthResultByCount(scanner, issueCount) ==
    IF issueCount = 0 THEN "success" ELSE "warning"

interpretEmailAuthResult(scanner, issueCount) ==
    LET hasSpf == Truthy(Field(scanner.data, "hasSpf"))
        hasDmarc == Truthy(Field(scanner.data, "hasDmarc"))
        hasDkim == Truthy(Field(scanner.data, "hasDkim"))
        dmarcEnforced == Truthy(Field(scanner.data, "dmarcEnforced"))
    IN IF hasSpf /\ hasDmarc /\ hasDkim /\ dmarcEnforced THEN "success"
       ELSE IF hasSpf /\ hasDmarc /\ hasDkim THEN "warning"
       ELSE IF hasSpf \/ hasDmarc \/ hasDkim THEN "warning"
       ELSE "critical"

interpretCertificateResult(scanner, issueCount) ==
    LET certCount == OrZero(Field(scanner.data, "certCount"))
        expiringIn7Days == OrZero(Field(scanner.data, "expiringIn7Days"))
        expiringIn30Days == OrZero(Field(scanner.data, "expiringIn30Days"))
    IN IF certCount = 0 THEN "info"
       ELSE IF expiringIn7Days > 0 THEN "critical"
       ELSE IF expiringIn30Days > 0 THEN "warning"
       ELSE IF issueCount > 0 THEN "warning"
       ELSE "success"

interpretRdapResult(scanner, issueCount) ==
    LET hasCriticalIssues ==
            \E k \in DOMAIN scanner.issues :
                \/ Includes(LowerWords(scanner.issues[k]), <<"expired">>)
                \/ Includes(LowerWords(scanner.issues[k]), <<"no", "nameservers">>)
        hasExpirationWarning ==
            \E k \in DOMAIN scanner.issues :
                /\ Includes(LowerWords(scanner.issues[k]), <<"expires", "in">>)
                /\ Includes(LowerWords(scanner.issues[k]), <<"days">>)
    IN IF Field(scanner.data, "error") # None THEN "info"
       ELSE IF hasCriticalIssues THEN "critical"
       ELSE IF hasExpirationWarning THEN "warning"
       ELSE IF issueCount > 0 THEN "warning"
       ELSE "success"

\* gradeMap of interpretSslLabsResult
SslGradeSeverity(grade) ==
    CASE grade \in {"A+", "A", "A-"} -> "success"
      [] grade \in {"B", "C"} -> "warning"
      [] grade \in {"D", "E", "F", "T", "M"} -> "critical"
      [] OTHER -> "info"

interpretSslLabsResult(scanner, issueCount) ==
    LET status == Field(scanner.data, "status")
        lowestGrade == Field(scanner.data, "lowestGrade")
    IN IF status = Some("ERROR") THEN "error"
       ELSE IF status # Some("READY") THEN "info"
       ELSE IF lowestGrade = None THEN "info"
       ELSE SslGradeSeverity(lowestGrade[1])

\* gradeMap of interpretSecurityHeadersResult
HeadersGradeSeverity(grade) ==
    CASE grade \in {"A+", "A"} -> "success"
      [] grade = "B" -> "info"
      [] grade \in {"C", "D"} -> "warning"
      [] grade \in {"E", "F"} -> "critical"
      [] OTHER -> "info"

interpretSecurityHeadersResult(scanner, issueCount) ==
    LET grade == Field(scanner.data, "grade")
    IN IF Field(scanner.data, "status") = Some("unavailable") THEN "info"
       ELSE HeadersGradeSeverity(IF grade = None THEN "Unknown" ELSE grade[1])

\* the severity of the interpretation (its message and recommendation are
\* texts chosen along with it)
interpretScannerResult(scanner) ==
    LET issueCount == Len(scanner.issues)
    IN IF scanner.status = "error" THEN "error"
       ELSE CASE scanner.id = "dns" -> interpretDnsResult(scanner, issueCount)
              [] scanner.id = "emailAuth" -> interpretEmailAuthResult(scanner, issueCount)
              [] scanner.id = "certificates" -> interpretCertificateResult(scanner, issueCount)
              [] scanner.id = "rdap" -> interpretRdapResult(scanner, issueCount)
              [] scanner.id = "sslLabs" -> interpretSslLabsResult(scanner, issueCount)
              [] scanner.id = "securityHeaders" ->
                    interpretSecurityHeadersResult(scanner, issueCount)
              [] OTHER -> IF issueCount = 0 THEN "success" ELSE "warning"

\* issue lists given to the interpretation functions
IssueLists ==
    {<<>>, <<IssueDnssec>>, <<IssueExpired>>, <<IssueNoNameservers>>,
     <<IssueExpiresSoon>>, <<IssueDnssec, IssueDnssec, IssueDnssec>>}

OptBool == {None, Some(TRUE), Some(FALSE)}

\* data payloads, per scanner id, over the fields its function reads
DataFor(id) ==
    CASE id = "emailAuth" ->
            {Some([EmptyData EXCEPT !.hasSpf = a, !.hasDmarc = b, !.hasDkim = c,
                                    !.dmarcEnforced = d]) :
                a \in {None, Some(TRUE)}, b \in {Some(TRUE), Some(FALSE)},
                c \in {Some(TRUE), Some(FALSE)}, d \in {Some(TRUE), Some(FALSE)}}
      [] id = "certificates" ->
            {Some([EmptyData EXCEPT !.certCount = a, !.expiringIn7Days = b,
                                    !.expiringIn30Days = c]) :
                a \in {None, Some(0), Some(2)}, b \in {Some(0), Some(1)},
                c \in {Some(0), Some(1)}}
      [] id = "rdap" ->
            {Some(EmptyData), Some([EmptyData EXCEPT !.error = Some("not found")])}
      [] id = "sslLabs" ->
            {Some([EmptyData EXCEPT !.status = a, !.lowestGrade = b]) :
                a \in {None, Some("ERROR"), Some("IN_PROGRESS"), Some("READY")},
                b \in {None, Some("A+"), Some("B"), Some("F"), Some("Z")}}
      [] id = "securityHeaders" ->
            {Some([EmptyData EXCEPT !.status = a, !.grade = b]) :
                a \in {None, Some("unavailable")},
                b \in {None, Some("A"), Some("B"), Some("C"), Some("F")}}
      [] OTHER -> {Some(EmptyData)}

\* the results handed to interpretScannerResult
InterpretInputs ==
    UNION {{ScannerOf(id, status, issues, data) :
                status \in {"complete", "error"}, issues \in IssueLists,
                data \in DataFor(id) \cup {None}} :
           id \in Range(ShippedIds) \cup {"unknown"}}

\* interpretScannerResult(scanner) returns
InterpretScannerResult ==
    /\ interp.scanner # None
    /\ interp.out = None
    /\ interp' = [interp EXCEPT !.out = Some(interpretScannerResult(interp.scanner[1]))]
    /\ UNCHANGED <<scanVars, besidesInterp>>

\* interpretations of single results
InitInterpret ==
    /\ ScanInit
    /\ interp \in {[scanner |-> Some(s), out |-> None] : s \in InterpretInputs}
    /\ RestIdle

NextInterpret == InterpretScannerResult

SpecInterpret == InitInterpret /\ [][NextInterpret]_vars

\* ------------------------------------------------------- AppStateContext
\* most runScanners calls in a run
MaxCalls == 2

\* scannerCache.get(domain): the aggregate stored for the domain, if any
CacheGet(cache, domain) == cache[domain]

\* scannerCache.set(domain, agg)
CacheSet(cache, domain, agg) == [cache EXCEPT ![domain] = Some(agg)]

\* the answers of scannerCache.checkRateLimit()
RateAnswers ==
    {[allowed |-> TRUE, retryAfter |-> 0], [allowed |-> FALSE, retryAfter |-> 12],
     [allowed |-> FALSE, retryAfter |-> 60]}

\* new Error(`Rate limit exceeded. Please wait ${retryAfter} seconds before
\* scanning again.`)
RateLimitError(retryAfter) ==
    [text |-> "Rate limit exceeded. Please wait N seconds before scanning again.",
     seconds |-> retryAfter]

\* the descriptors of the scans started from the application
AppCandidates ==
    {Descriptor(id, Some(ShippedTimeout(id)), FALSE, run) :
        id \in Range(ShippedIds), run \in {"resolveIssues", "never"}}

\* the DomainScanAggregate object runAllScanners returned: its scanners
\* field is the results array itself
AggregateObject ==
    [domain |-> aggregate[1].domain,
     timestamp |-> aggregate[1].timestamp,
     scanners |-> results,
     issues |-> aggregate[1].issues]

\* the React state scannerProgress: while a scan is under way, the list last
\* handed to setScannerProgress by the progress callback, whose elements are
\* the result objects of the scan
scannerProgress ==
    IF app.pc = "running" /\ pc # "idle" THEN results ELSE app.progress

\* what a runScanners(domain) call makes of the application state a, up to
\* its return, its throw, or its call of runAllScanners, whose emailAuth run
\* is yet to read the custom selectors
runScanners(a, domain, rate) ==
    LET cached == CacheGet(a.cache, domain)
    IN  IF cached # None
        THEN [a EXCEPT !.calls = @ + 1, !.domain = Some(domain), !.last = "cached",
                       !.error = None,
                       !.domainScanAggregate = cached,
                       !.progress = cached[1].scanners]
        ELSE IF ~rate.allowed
        THEN [a EXCEPT !.calls = @ + 1, !.domain = Some(domain), !.rateChecks = @ + 1,
                       !.answer = Some(rate), !.last = "denied",
                       !.error = Some(RateLimitError(rate.retryAfter))]
        ELSE [a EXCEPT !.calls = @ + 1, !.domain = Some(domain), !.rateChecks = @ + 1,
                       !.answer = Some(rate),
                       !.error = None, !.pc = "running",
                       !.progress = <<>>,
                       !.runs = @ + 1,
                       !.customSelectors[domain] = None]

\* runScanners on a cache hit, but with the rate limit consulted first
RunScannersRateFirst(domain, rate) ==
    /\ app.pc = "idle"
    /\ pc = "idle"
    /\ SCANNERS # <<>>
    /\ app.calls < MaxCalls
    /\ LET cached == CacheGet(app.cache, domain)
       IN IF ~rate.allowed
          THEN app' = [app EXCEPT !.calls = @ + 1, !.domain = Some(domain), !.rateChecks = @ + 1,
                                  !.answer = Some(rate), !.last = "denied",
                                  !.error = Some(RateLimitError(rate.retryAfter))]
          ELSE IF cached # None
          THEN app' = [app EXCEPT !.calls = @ + 1, !.domain = Some(domain), !.rateChecks = @ + 1,
                                  !.answer = Some(rate),
                                  !.last = "cached", !.error = None,
                                  !.domainScanAggregate = cached,
                                  !.progress = cached[1].scanners]
          ELSE app' = [app EXCEPT !.calls = @ + 1, !.domain = Some(domain), !.rateChecks = @ + 1,
                                  !.answer = Some(rate),
                                  !.error = None, !.pc = "running",
                                  !.progress = <<>>,
                                  !.runs = @ + 1]
    /\ UNCHANGED <<scanVars, besidesApp>>

\* runScanners with setScannerProgress([]) moved ahead of the rate-limit check
RunScannersClearFirst(domain, rate) ==
    /\ app.pc = "idle"
    /\ pc = "idle"
    /\ SCANNERS # <<>>
    /\ app.calls < MaxCalls
    /\ LET cached == CacheGet(app.cache, domain)
       IN IF cached # None
          THEN app' = [app EXCEPT !.calls = @ + 1, !.domain = Some(domain), !.last = "cached",
                                  !.error = None,
                                  !.domainScanAggregate = cached,
                                  !.progress = cached[1].scanners]
          ELSE IF ~rate.allowed
          THEN app' = [app EXCEPT !.calls = @ + 1, !.domain = Some(domain), !.rateChecks = @ + 1,
                                  !.answer = Some(rate), !.last = "denied",
                                  !.progress = <<>>,
                                  !.error = Some(RateLimitError(rate.retryAfter))]
          ELSE app' = [app EXCEPT !.calls = @ + 1, !.domain = Some(domain), !.rateChecks = @ + 1,
                                  !.answer = Some(rate),
                                  !.error = None, !.pc = "running",
                                  !.progress = <<>>,
                                  !.runs = @ + 1]
    /\ UNCHANGED <<scanVars, besidesApp>>

\* runScanners(domain) up to its return, its throw, or its call of
\* runAllScanners; rate is what checkRateLimit answers if it is asked
RunScanners(domain, rate) ==
    /\ app.pc = "idle"
    /\ pc = "idle"
    /\ SCANNERS # <<>>
    /\ app.calls < MaxCalls
    /\ app' = runScanners(app, domain, rate)
    /\ UNCHANGED <<scanVars, besidesApp>>

\* runAllScanners(domain, (partial) => setScannerProgress(partial))
AppRunAll ==
    /\ app.pc = "running"
    /\ RunAllScanners(app.domain[1], "quiet")

\* runScanners resumes after the await: setDomainScanAggregate, persist (to
\* a localStorage that accepts the write), scannerCache.set; the locals of
\* the finished runAllScanners call are gone
AppResume ==
    /\ app.pc = "running"
    /\ pc = "resolved"
    /\ app' = [app EXCEPT !.pc = "idle", !.last = "fresh",
                          !.domainScanAggregate = Some(AggregateObject),
                          !.progress = results,
                          !.persists = @ + 1,
                          !.stored = Some(AggregateObject),
                          !.cache = CacheSet(@, app.domain[1], AggregateObject)]
    /\ pc' = "idle"
    /\ onProgress' = "absent"
    /\ trimmed' = None
    /\ results' = <<>>
    /\ tasks' = <<>>
    /\ microtasks' = <<>>
    /\ progressCalls' = <<>>
    /\ aggregate' = None
    /\ UNCHANGED <<SCANNERS, DEFAULT_SCANNER_TIMEOUT, now, timeoutCall, rerun, besidesApp>>

\* scans started from the application
NextApp ==
    \/ \E d \in AppCandidates : app.calls = 0 /\ InShippedOrder(d) /\ Register(d)
    \/ \E domain \in AppDomains, rate \in RateAnswers : RunScanners(domain, rate)
    \/ AppRunAll
    \/ \E i \in DOMAIN tasks : RunSettles(i)
    \/ \E i \in DOMAIN tasks : TimerFires(i)
    \/ ThenHandler
    \/ ThenSkipped
    \/ CatchHandler
    \/ Finish
    \/ Advance
    \/ AppResume

SpecApp == Init /\ [][NextApp]_vars

\* -------------------------------------------------- lists handed to callers
\* [...results] as handed to the callback in invocation k, read now: a new
\* array whose elements are the result objects of the scan themselves
HandedList(k) ==
    [j \in DOMAIN progressCalls[k].shown |->
        [status |-> results[j].status, data |-> results[j].data,
         issues |-> results[j].issues]]

\* the returned aggregate, read now: its scanners field is the results array
ReturnedAggregate ==
    [domain |-> aggregate[1].domain, timestamp |-> aggregate[1].timestamp,
     scanners |-> results, issues |-> aggregate[1].issues]

\* ------------------------------------------------- dkimSelectorsService
\* most save and delete calls in a run
MaxDkimCalls == 3

\* the selector lists given to saveDkimSelectors
SelectorLists == {<<"s1">>, <<"s2", "s1">>}

\* JSON.stringify of a DkimSelectorsData object, as the text it produces
JsonStringify(data) == <<"{", data.domain, data.selectors, data.updatedAt, "}">>

\* JSON.parse of such a text
JsonParse(text) ==
    [domain |-> text[2], selectors |-> text[3], updatedAt |-> text[4]]

\* getDkimSelectors(domain), on a localStorage that can be read
getDkimSelectors(domain) ==
    IF domain = "" THEN <<>>
    ELSE IF dkim.storage[domain] = None THEN <<>>
    ELSE JsonParse(dkim.storage[domain][1]).selectors

\* the call getDkimSelectors(domain) and what it returned
GetDkimSelectors(domain) ==
    /\ dkim' = [dkim EXCEPT !.got = Some([domain |-> domain,
                                          selectors |-> getDkimSelectors(domain),
                                          after |-> Len(dkim.log)])]
    /\ UNCHANGED <<scanVars, besidesDkim>>

\* saveDkimSelectors that keeps one entry for all domains
SaveDkimSelectorsOneKey(domain, selectors, quotaExceeded) ==
    /\ Len(dkim.log) < MaxDkimCalls
    /\ LET ok == domain # "" /\ ~quotaExceeded
           text == Some(JsonStringify([domain |-> domain, selectors |-> selectors,
                                       updatedAt |-> now]))
       IN dkim' = [dkim EXCEPT
                     !.storage = IF ok THEN [d \in DkimDomains |-> text] ELSE @,
                     !.log = Append(@, [op |-> "save", domain |-> domain,
                                        selectors |-> selectors, ok |-> ok])]
    /\ UNCHANGED <<scanVars, besidesDkim>>

\* saveDkimSelectors(domain, selectors); quotaExceeded: localStorage.setItem
\* throws
SaveDkimSelectors(domain, selectors, quotaExceeded) ==
    /\ Len(dkim.log) < MaxDkimCalls
    /\ LET ok == domain # "" /\ ~quotaExceeded
           text == JsonStringify([domain |-> domain, selectors |-> selectors,
                                  updatedAt |-> now])
       IN dkim' = [dkim EXCEPT
                     !.storage = IF ok THEN [@ EXCEPT ![domain] = Some(text)] ELSE @,
                     !.log = Append(@, [op |-> "save", domain |-> domain,
                                        selectors |-> selectors, ok |-> ok])]
    /\ UNCHANGED <<scanVars, besidesDkim>>

\* deleteDkimSelectors(domain); storageError: localStorage.removeItem throws
DeleteDkimSelectors(domain, storageError) ==
    /\ Len(dkim.log) < MaxDkimCalls
    /\ LET ok == domain # "" /\ ~storageError
       IN dkim' = [dkim EXCEPT
                     !.storage = IF ok THEN [@ EXCEPT ![domain] = None] ELSE @,
                     !.log = Append(@, [op |-> "delete", domain |-> domain,
                                        selectors |-> <<>>, ok |-> ok])]
    /\ UNCHANGED <<scanVars, besidesDkim>>

\* calls of the DKIM selector service in any order
NextDkim ==
    \/ \E d \in DkimDomains : GetDkimSelectors(d)
    \/ \E d \in DkimDomains, sel \in SelectorLists, q \in BOOLEAN :
          SaveDkimSelectors(d, sel, q)
    \/ \E d \in DkimDomains, e \in BOOLEAN : DeleteDkimSelectors(d, e)

SpecDkim == Init /\ [][NextDkim]_vars

\* ------------------------------------------------------- scanners' runs
\* One call of one scanner's run(domain) and the requests it makes. A
\* domain is the list of its labels, which is what split('.') returns.
ProbeDomains ==
    {<<"example", "com">>, <<"example", "COM">>, <<"example", "unknown">>,
     <<"www", "example", "org">>, <<"example", "com", "">>, <<"invalid">>}

\* String.prototype.toLowerCase on a label
LowerLabel(l) == IF l = "COM" THEN "com" ELSE l

\* ways a request fails before a body can be read: fetch throws, the status
\* is not 2xx, the body does not parse
FailedReplies == {"network", "status", "malformed"}

\* the ScanOutcome a run resolves with; of data, the error field is kept
ScanOutcome(summary, error, issues) ==
    [summary |-> summary,
     data |-> [EmptyData EXCEPT !.error = error],
     issues |-> issues]

\* the run's promise resolves
Resolved(p, outcome) == [p EXCEPT !.pc = "resolved", !.outcome = Some(outcome)]

\* a run starts
Started(scanner, domain) ==
    [ProbeInit EXCEPT !.scanner = scanner, !.domain = domain]

\* the run goes on as p after a reply; bad tells whether the reply was a
\* failure or a body that is not of the expected shape
Heard(bad, p) == [p EXCEPT !.failed = @ \/ bad]

\* ----------------------------------------------------------------- RDAP
BootstrapUrl == "https://data.iana.org/rdap/dns.json"

\* one entry of bootstrapData.services: [tlds, servers]
Service(tlds, servers) == [tlds |-> tlds, servers |-> servers]

\* the services lists the bootstrap service may answer with
ServiceLists ==
    {<<>>,
     <<Service({"com"}, <<"https://rdap.one/", "https://rdap.two/">>)>>,
     <<Service({"org"}, <<"https://rdap.three/">>),
       Service({"com", "net"}, <<"https://rdap.one/">>)>>,
     <<Service({"com"}, <<>>)>>}

\* what the bootstrap request may come to: a failure, a body that is not of
\* the expected shape, a body without services, a body with a services list
BootstrapReplies ==
    {[kind |-> k, services |-> None] : k \in FailedReplies \cup {"misshaped"}}
    \cup {[kind |-> "ok", services |-> None]}
    \cup {[kind |-> "ok", services |-> Some(l)] : l \in ServiceLists}

\* what a request to an RDAP server may come to; the body of a 2xx answer is
\* null, {}, a registration with two nameservers, or an object whose status
\* is no array
ServerReplies ==
    {[kind |-> k, body |-> ""] : k \in FailedReplies \cup {"notFound"}}
    \cup {[kind |-> "ok", body |-> b] : b \in {"null", "empty", "healthy", "misshaped"}}

RECURSIVE FindServers(_, _)
\* the loop over bootstrapData.services
FindServers(services, tld) ==
    IF services = <<>> THEN <<>>
    ELSE IF LowerLabel(tld) \in Head(services).tlds THEN Head(services).servers
    ELSE FindServers(Tail(services), tld)

\* err instanceof Error ? err.message : 'Unknown error', for what the
\* requests of the RDAP run throw
RdapThrown(kind) ==
    CASE kind = "network" -> "Failed to fetch"
      [] kind = "status" -> "Failed to fetch RDAP bootstrap data: 500"
      [] kind = "malformed" -> "Unexpected token < in JSON"
      [] OTHER -> "is not iterable"

\* the outer catch
RdapFailed(errorMessage) ==
    ScanOutcome("RDAP lookup failed", Some(errorMessage),
                Some(<<"Failed to retrieve RDAP information">>))

\* the return for a domain without a TLD
RdapInvalidDomain ==
    ScanOutcome("Invalid domain", Some("Invalid domain format"),
                Some(<<"Domain must have at least a name and TLD (e.g., example.com)">>))

\* the return for rdapServers.length === 0
RdapNotAvailable ==
    ScanOutcome("RDAP not available for this TLD", Some("No RDAP server found for TLD"),
                Some(<<"No RDAP service available for domains of this TLD.",
                       "This TLD may not support RDAP or uses legacy WHOIS only.">>))

\* the return for !rdapData
RdapNoData(lastError) ==
    ScanOutcome("RDAP lookup failed",
                IF lastError # None THEN lastError ELSE Some("Domain not found in RDAP"),
                Some(<<"Could not retrieve RDAP data",
                       "Domain may not be registered or RDAP server may be unavailable.">>))

\* step 3, the analysis of the RDAP response
RdapAnalysis(body) ==
    CASE body = "healthy" ->
            ScanOutcome("Domain: ldhName, status: active", None, None)
      [] body = "empty" ->
            ScanOutcome("Domain: ldhName", None,
                        Some(<<"No nameservers found - domain cannot resolve">>))
      [] OTHER -> RdapFailed("statuses.some is not a function")

\* rdapScanner.run(domain), up to its first await
RdapRun(domain) ==
    /\ probe.pc = "idle"
    /\ probe' = IF Len(domain) < 2
                THEN Resolved(Started("rdap", domain), RdapInvalidDomain)
                ELSE [Started("rdap", domain) EXCEPT !.pc = "bootstrap",
                                                     !.requests = <<BootstrapUrl>>]
    /\ UNCHANGED <<scanVars, besidesProbe>>

\* one request to the next RDAP server
QueryServer(p) ==
    [p EXCEPT !.pc = "server",
              !.requests = Append(@, p.servers[Len(p.requests)])]

\* RdapBootstrapReply gone wrong: a server is queried although none was found
RdapBootstrapReplyQueriesAnyway(reply) ==
    /\ probe.scanner = "rdap"
    /\ probe.pc = "bootstrap"
    /\ LET services == IF reply.services = None THEN <<>> ELSE reply.services[1]
           tld == probe.domain[Len(probe.domain)]
           rdapServers == FindServers(services, tld)
           found == [probe EXCEPT !.servers =
                        IF rdapServers = <<>> THEN <<"https://rdap.one/">> ELSE rdapServers,
                                  !.bootstrapData = Some([services |-> reply.services])]
       IN probe' = Heard(reply.kind # "ok",
                         IF reply.kind # "ok"
                         THEN Resolved(probe, RdapFailed(RdapThrown(reply.kind)))
                         ELSE QueryServer(found))
    /\ UNCHANGED <<scanVars, besidesProbe>>

\* the bootstrap request is answered
RdapBootstrapReply(reply) ==
    /\ probe.scanner = "rdap"
    /\ probe.pc = "bootstrap"
    /\ LET services == IF reply.services = None THEN <<>> ELSE reply.services[1]
           tld == probe.domain[Len(probe.domain)]
           rdapServers == FindServers(services, tld)
           found == [probe EXCEPT !.servers = rdapServers,
                                  !.bootstrapData = Some([services |-> reply.services])]
       IN probe' = Heard(reply.kind # "ok",
                         IF reply.kind # "ok"
                         THEN Resolved(probe, RdapFailed(RdapThrown(reply.kind)))
                         ELSE IF rdapServers = <<>> THEN Resolved(found, RdapNotAvailable)
                         ELSE QueryServer(found))
    /\ UNCHANGED <<scanVars, besidesProbe>>

\* RdapServerReply gone wrong: the reason of the first failure is kept
RdapServerReplyFirstReason(reply) ==
    /\ probe.scanner = "rdap"
    /\ probe.pc = "server"
    /\ LET lastError ==
               CASE reply.kind = "notFound" -> Some("Domain not found")
                 [] reply.kind = "status" -> Some("Server returned 500")
                 [] reply.kind \in {"network", "malformed"} -> Some(RdapThrown(reply.kind))
                 [] OTHER -> probe.lastError
           heard == [probe EXCEPT !.records =
                        Append(@, [type |-> reply.kind, data |-> reply.body])]
           noted == [heard EXCEPT !.lastError = IF probe.lastError # None THEN probe.lastError ELSE lastError]
       IN probe' = Heard(reply.kind # "ok" \/ reply.body \in {"null", "misshaped"},
            IF reply.kind = "ok"
            THEN IF reply.body = "null" THEN Resolved(heard, RdapNoData(probe.lastError))
                 ELSE Resolved(heard, RdapAnalysis(reply.body))
            ELSE IF Len(probe.requests) <= Len(probe.servers)
                 THEN QueryServer(noted)
                 ELSE Resolved(noted, RdapNoData(noted.lastError)))
    /\ UNCHANGED <<scanVars, besidesProbe>>

\* a request to an RDAP server is answered; a 2xx answer whose body does not
\* parse (malformed) is caught inside the loop like a network error
RdapServerReply(reply) ==
    /\ probe.scanner = "rdap"
    /\ probe.pc = "server"
    /\ LET lastError ==
               CASE reply.kind = "notFound" -> Some("Domain not found")
                 [] reply.kind = "status" -> Some("Server returned 500")
                 [] reply.kind \in {"network", "malformed"} -> Some(RdapThrown(reply.kind))
                 [] OTHER -> probe.lastError
           heard == [probe EXCEPT !.records =
                        Append(@, [type |-> reply.kind, data |-> reply.body])]
           noted == [heard EXCEPT !.lastError = lastError]
       IN probe' = Heard(reply.kind # "ok" \/ reply.body \in {"null", "misshaped"},
            IF reply.kind = "ok"
            THEN IF reply.body = "null" THEN Resolved(heard, RdapNoData(probe.lastError))
                 ELSE Resolved(heard, RdapAnalysis(reply.body))
            ELSE IF Len(probe.requests) <= Len(probe.servers)
                 THEN QueryServer(noted)
                 ELSE Resolved(noted, RdapNoData(noted.lastError)))
    /\ UNCHANGED <<scanVars, besidesProbe>>

\* calls of the RDAP scanner's run
NextRdap ==
    \/ \E domain \in ProbeDomains : RdapRun(domain)
    \/ \E reply \in BootstrapReplies : RdapBootstrapReply(reply)
    \/ \E reply \in ServerReplies : RdapServerReply(reply)

SpecRdap == Init /\ [][NextRdap]_vars

\* ------------------------------------------------------------- SSL Labs
\* const maxPolls = 20; const pollInterval = 30000
maxPolls == 20
pollInterval == 30000

AnalyzeUrl == "https://api.ssllabs.com/api/v3/analyze"

\* ms a request takes to be answered
Latencies == {0, 1}

\* what a fetchAnalysis request may come to: a failure, a body that is no
\* object (null), or an analysis; the status of an analysis may be missing,
\* and the endpoints of a READY one are absent, graded, or no array
AnalysisReplies ==
    {[kind |-> k, status |-> None, endpoints |-> ""] : k \in FailedReplies \cup {"misshaped"}}
    \cup {[kind |-> "ok", status |-> s, endpoints |-> ""] :
            s \in {None, Some("DNS"), Some("IN_PROGRESS"), Some("ERROR")}}
    \cup {[kind |-> "ok", status |-> Some("READY"), endpoints |-> e] :
            e \in {"none", "graded", "misshaped"}}

\* the sslLabs descriptor as registered
SslLabsScanner == Descriptor("sslLabs", Some(ShippedTimeout("sslLabs")), FALSE, "polling")

\* an outcome whose data carries the analysis status
SslOutcome(summary, status, error, issues) ==
    [ScanOutcome(summary, error, issues) EXCEPT !.data.status = status]

\* the catch of sslLabsScanner.run
SslFailed(errorMessage) ==
    SslOutcome("SSL Labs scan failed", None, Some(errorMessage),
               Some(<<"Failed to scan SSL/TLS configuration">>))

\* `SSL Labs scan still in progress (status: ${result.status})`
StillInProgress(status) ==
    CASE status = Some("DNS") -> "SSL Labs scan still in progress (status: DNS)"
      [] status = Some("IN_PROGRESS") -> "SSL Labs scan still in progress (status: IN_PROGRESS)"
      [] OTHER -> "SSL Labs scan still in progress (status: undefined)"

\* what run returns once the polling loop is left
SslVerdict(reply) ==
    CASE reply.status = Some("ERROR") ->
            SslOutcome("SSL Labs scan error: Unknown error", reply.status, None,
                       Some(<<"SSL Labs could not scan this domain: Unknown error">>))
      [] reply.status # Some("READY") ->
            SslOutcome(StillInProgress(reply.status), reply.status, None,
                       Some(<<"Scan timed out or is still processing. Try again later or visit ssllabs.com for full results.">>))
      [] reply.endpoints = "none" ->
            SslOutcome("No SSL/TLS endpoints found", reply.status, None,
                       Some(<<"No HTTPS endpoints detected for this domain">>))
      [] reply.endpoints = "graded" ->
            [SslOutcome("1 endpoint(s) scanned, grade(s): A", reply.status, None, Some(<<>>))
                EXCEPT !.data.lowestGrade = Some("A")]
      [] OTHER -> SslFailed("endpoints.forEach is not a function")

\* err.message of what fetchAnalysis throws
SslThrown(kind) ==
    CASE kind = "network" -> "Failed to fetch"
      [] kind = "status" -> "SSL Labs API returned 500"
      [] kind = "malformed" -> "Unexpected token < in JSON"
      [] OTHER -> "Cannot read properties of null (reading 'status')"

\* one fetchAnalysis request goes out
FetchAnalysis(p, latency) ==
    [p EXCEPT !.pc = "fetching",
              !.requests = Append(@, AnalyzeUrl),
              !.due = p.clock + latency]

\* the run's promise settles first in withTimeout's race, if it is raced:
\* the .then handler completes the orchestrator's result
Settle(p, outcome) ==
    IF p.race # "pending" THEN Resolved(p, outcome)
    ELSE [Resolved(p, outcome) EXCEPT
            !.race = "fulfilled",
            !.result = Some(Complete(p.result[1], outcome,
                                     FinalIssues(SslLabsScanner, outcome, p.domain),
                                     p.clock))]

\* sslLabsScanner.run(domain) up to its first await; raced tells whether the
\* call is made by the orchestrator, inside withTimeout
SslLabsRun(domain, raced, latency) ==
    /\ probe.pc = "idle"
    /\ LET called == FetchAnalysis(Started("sslLabs", domain), latency)
       IN probe' = IF ~raced THEN called
                   ELSE [called EXCEPT !.watchdog = "armed",
                                       !.race = "pending",
                                       !.result = Some(NewResult(SslLabsScanner, 0))]
    /\ UNCHANGED <<scanVars, besidesProbe>>

\* the timer of withTimeout is armed and the awaited event is not due before it
WatchdogFirst(strictly) ==
    /\ probe.watchdog = "armed"
    /\ IF strictly THEN ShippedTimeout("sslLabs") < probe.due
       ELSE ShippedTimeout("sslLabs") <= probe.due

\* SslLabsReply gone wrong: the loop polls once more than maxPolls allows
SslLabsReplyOnePollMore(reply) ==
    /\ probe.scanner = "sslLabs"
    /\ probe.pc = "fetching"
    /\ ~WatchdogFirst(TRUE)
    /\ LET pollCount == IF Len(probe.requests) > 1 THEN probe.pollCount + 1
                        ELSE probe.pollCount
           got == [probe EXCEPT !.clock = probe.due,
                                !.status = reply.status,
                                !.pollCount = pollCount]
       IN probe' = Heard(reply.kind # "ok" \/ reply.endpoints = "misshaped",
            IF reply.kind # "ok"
            THEN Settle([probe EXCEPT !.clock = probe.due], SslFailed(SslThrown(reply.kind)))
            ELSE IF /\ reply.status \in {Some("DNS"), Some("IN_PROGRESS")}
                    /\ pollCount <= maxPolls
                 THEN [got EXCEPT !.pc = "sleeping", !.due = got.clock + pollInterval]
                 ELSE Settle(got, SslVerdict(reply)))
    /\ UNCHANGED <<scanVars, besidesProbe>>

\* a fetchAnalysis request is answered: the polling loop goes on to its next
\* sleep, or is left and run returns
SslLabsReply(reply) ==
    /\ probe.scanner = "sslLabs"
    /\ probe.pc = "fetching"
    /\ ~WatchdogFirst(TRUE)
    /\ LET pollCount == IF Len(probe.requests) > 1 THEN probe.pollCount + 1
                        ELSE probe.pollCount
           got == [probe EXCEPT !.clock = probe.due,
                                !.status = reply.status,
                                !.pollCount = pollCount]
       IN probe' = Heard(reply.kind # "ok" \/ reply.endpoints = "misshaped",
            IF reply.kind # "ok"
            THEN Settle([probe EXCEPT !.clock = probe.due], SslFailed(SslThrown(reply.kind)))
            ELSE IF /\ reply.status \in {Some("DNS"), Some("IN_PROGRESS")}
                    /\ pollCount < maxPolls
                 THEN [got EXCEPT !.pc = "sleeping", !.due = got.clock + pollInterval]
                 ELSE Settle(got, SslVerdict(reply)))
    /\ UNCHANGED <<scanVars, besidesProbe>>

\* the setTimeout of the polling loop fires and the next request goes out; a
\* timer of withTimeout due at the same time was set earlier and fires first
SslLabsPollTimer(latency) ==
    /\ probe.scanner = "sslLabs"
    /\ probe.pc = "sleeping"
    /\ ~WatchdogFirst(FALSE)
    /\ probe' = FetchAnalysis([probe EXCEPT !.clock = probe.due], latency)
    /\ UNCHANGED <<scanVars, besidesProbe>>

\* the setTimeout callback of withTimeout runs: the race rejects unless the
\* run has settled, and the .catch handler fails the orchestrator's result
WatchdogFires ==
    /\ probe.scanner = "sslLabs"
    /\ probe.watchdog = "armed"
    /\ probe.pc = "resolved" \/ WatchdogFirst(FALSE)
    /\ LET time == IF probe.clock > ShippedTimeout("sslLabs") THEN probe.clock
                   ELSE ShippedTimeout("sslLabs")
           fired == [probe EXCEPT !.watchdog = "fired", !.clock = time]
       IN probe' =
            IF probe.race # "pending" THEN fired
            ELSE [fired EXCEPT
                    !.race = "rejected",
                    !.result = Some(Fail(probe.result[1],
                        Thrown(TRUE, TimeoutMessage(LabelOf("sslLabs"),
                                                    ShippedTimeout("sslLabs"))),
                        time))]
    /\ UNCHANGED <<scanVars, besidesProbe>>

\* the event loop under a run of the SSL Labs scanner
TlsProgress ==
    \/ \E reply \in AnalysisReplies : SslLabsReply(reply)
    \/ \E latency \in Latencies : SslLabsPollTimer(latency)
    \/ WatchdogFires

\* calls of the SSL Labs scanner's run, made directly or by the orchestrator
NextTls ==
    \/ \E domain \in ProbeDomains, raced \in BOOLEAN, latency \in Latencies :
          SslLabsRun(domain, raced, latency)
    \/ TlsProgress

\* every request is answered and every timer that is due fires
SpecTls == Init /\ [][NextTls]_vars /\ WF_vars(TlsProgress)

\* ------------------------------------------------------ Google Public DNS
DnsUrl == "https://dns.google/resolve"

\* what a fetchDNS request may come to: a failure; a body that is null or
\* whose Answer is no array (shapeless); a body without Answer (none); an
\* Answer whose data are strings (records) or numbers (numbers)
DnsReplies == FailedReplies \cup {"shapeless", "none", "records", "numbers"}

\* fetchDNS: null, or { type, data }
fetchDNS(rrtype, reply) ==
    IF reply \in FailedReplies \cup {"shapeless"} THEN None
    ELSE Some([type |-> rrtype, data |-> reply])

\* the run throws: its promise rejects
Rejected(p) == [p EXCEPT !.pc = "rejected"]

\* one more request to dns.google
FetchDns(p) == [p EXCEPT !.pc = "fetching", !.requests = Append(@, DnsUrl)]

\* ------------------------------------------------------------ DNS records
\* const types = ['A', 'AAAA', 'MX', 'TXT', 'CNAME']
DnsTypes == <<"A", "AAAA", "MX", "TXT", "CNAME">>

\* records.find((r) => r.type === t)?.data || [], as the kind of its content
DataOf(records, t) ==
    IF \E k \in DOMAIN records : records[k].type = t
    THEN records[CHOOSE k \in DOMAIN records : records[k].type = t].data
    ELSE "none"

\* the validation of dnsScanner.run: the issues it pushes
DnsIssues(records) ==
    LET noWeb == /\ DataOf(records, "A") = "none"
                 /\ DataOf(records, "AAAA") = "none"
                 /\ DataOf(records, "CNAME") = "none"
        conflict == /\ DataOf(records, "CNAME") # "none"
                    /\ \/ DataOf(records, "A") # "none"
                       \/ DataOf(records, "AAAA") # "none"
                       \/ DataOf(records, "MX") # "none"
        noMail == DataOf(records, "MX") = "none"
    IN (IF noWeb THEN <<"No A, AAAA, or CNAME records found - domain may not be accessible via web browser">> ELSE <<>>)
       \o (IF conflict THEN <<"CNAME conflict detected - CNAME records cannot coexist with A, AAAA, or MX records">> ELSE <<>>)
       \o (IF noMail THEN <<"No MX records found - email delivery to this domain will fail">> ELSE <<>>)

\* ip.startsWith and mx.split are called on each datum of the A and of the
\* MX records: a datum that is no string makes run throw
DnsThrows(records) ==
    DataOf(records, "A") = "numbers" \/ DataOf(records, "MX") = "numbers"

\* dnsScanner.run(domain) up to its first await
DnsRun(domain) ==
    /\ probe.pc = "idle"
    /\ probe' = FetchDns(Started("dns", domain))
    /\ UNCHANGED <<scanVars, besidesProbe>>

\* a fetchDNS call returns: the loop goes on to the next type, or run
\* validates what it collected and returns
DnsReply(reply) ==
    /\ probe.scanner = "dns"
    /\ probe.pc = "fetching"
    /\ LET r == fetchDNS(DnsTypes[Len(probe.requests)], reply)
           records == IF r = None THEN probe.records ELSE Append(probe.records, r[1])
           got == [probe EXCEPT !.records = records]
       IN probe' = Heard(reply \in FailedReplies \cup {"shapeless", "numbers"},
            IF Len(probe.requests) < Len(DnsTypes) THEN FetchDns(got)
            ELSE IF DnsThrows(records) THEN Rejected(got)
            ELSE Resolved(got,
                    ScanOutcome(IF records = <<>> THEN "No DNS records found"
                                ELSE "Found records",
                                None, Some(DnsIssues(records)))))
    /\ UNCHANGED <<scanVars, besidesProbe>>

\* --------------------------------------------------- email authentication
\* how many of checkDKIM's default selectors are probed
MaxSelectors == 2

\* extractSPF and fetchDMARC call toLowerCase on each TXT datum
TxtThrows(reply) == reply = "numbers"

\* the issues and warnings of emailAuthScanner.run, for records that hold
\* 'v=spf1 ~all', 'v=DMARC1; p=reject; sp=reject; rua=...' and a DKIM key
EmailAuthIssues(hasSpf, hasDmarc, hasDkim) ==
    (IF ~hasSpf THEN <<"No SPF record found - your domain is vulnerable to email spoofing">> ELSE <<>>)
    \o (IF ~hasDmarc THEN <<"No DMARC record found - email spoofing protection is incomplete">> ELSE <<>>)
    \o (IF ~hasDkim THEN <<"No DKIM selectors detected - emails cannot be cryptographically verified">> ELSE <<>>)
    \o (IF ~hasDkim
        THEN <<"Note: Checked ~40 common DKIM selectors used by major email providers.",
               "To verify DKIM is configured, try: ...">>
        ELSE <<"Found DKIM selector(s)">>)

\* aggregateMessage
EmailAuthSummary(hasSpf, hasDmarc, hasDkim) ==
    IF hasSpf /\ hasDmarc /\ hasDkim
    THEN "Email authentication fully configured with enforcement"
    ELSE IF hasSpf \/ hasDmarc \/ hasDkim THEN "Partial email authentication"
    ELSE "No email authentication configured - domain is vulnerable to spoofing"

\* emailAuthScanner.run(domain) up to its first await
EmailAuthRun(domain) ==
    /\ probe.pc = "idle"
    /\ probe' = FetchDns(Started("emailAuth", domain))
    /\ UNCHANGED <<scanVars, besidesProbe>>

\* the TXT lookup of the domain, and then the one of _dmarc.<domain>,
\* returns; after the second one checkDKIM sends its lookups all at once
EmailAuthReply(reply) ==
    /\ probe.scanner = "emailAuth"
    /\ probe.pc = "fetching"
    /\ LET r == fetchDNS("TXT", reply)
           got == [probe EXCEPT !.records =
                      Append(@, IF r = None THEN [type |-> "TXT", data |-> "none"] ELSE r[1])]
           asked == [got EXCEPT !.pc = "dkim",
                                !.requests = @ \o [k \in 1..MaxSelectors |-> DnsUrl]]
       IN probe' = Heard(reply \in FailedReplies \cup {"shapeless", "numbers"},
            IF TxtThrows(reply) THEN Rejected(got)
            ELSE IF Len(probe.requests) = 1 THEN FetchDns(got)
            ELSE asked)
    /\ UNCHANGED <<scanVars, besidesProbe>>

\* the lookups of checkDKIM have returned and run returns
EmailAuthDkimReplies(replies) ==
    /\ probe.scanner = "emailAuth"
    /\ probe.pc = "dkim"
    /\ LET hasSpf == probe.records[1].data = "records"
           hasDmarc == probe.records[2].data = "records"
           hasDkim == \E k \in DOMAIN replies : replies[k] = "records"
           throws == \E k \in DOMAIN replies : replies[k] = "numbers"
           bad == \E k \in DOMAIN replies :
                      replies[k] \in FailedReplies \cup {"shapeless", "numbers"}
           outcome == [ScanOutcome(EmailAuthSummary(hasSpf, hasDmarc, hasDkim), None,
                                   Some(EmailAuthIssues(hasSpf, hasDmarc, hasDkim)))
                          EXCEPT !.data.hasSpf = Some(hasSpf),
                                 !.data.hasDmarc = Some(hasDmarc),
                                 !.data.hasDkim = Some(hasDkim),
                                 !.data.dmarcEnforced = Some(hasDmarc)]
       IN probe' = Heard(bad, IF throws THEN Rejected(probe)
                              ELSE Resolved(probe, outcome))
    /\ UNCHANGED <<scanVars, besidesProbe>>

\* ----------------------------------------------------------- certificates
CrtShUrl == "https://crt.sh/"

\* what the crt.sh request may come to: a failure; a body that is null, an
\* object that is no array, an array of nulls, an empty array, or an array
\* with the row of one certificate in force
CertificateReplies ==
    FailedReplies \cup {"null", "object", "nulls", "empty", "rows"}

\* certificateScanner.run(domain) up to its await
CertificateRun(domain) ==
    /\ probe.pc = "idle"
    /\ probe' = [Started("certificates", domain) EXCEPT !.pc = "fetching",
                                                        !.requests = <<CrtShUrl>>]
    /\ UNCHANGED <<scanVars, besidesProbe>>

\* fetchCertificates returns: undefined for a failure, else whatever the
\* body parsed to; certificates.map throws on what is no array, and its
\* callback on a row that is null
CertificateReply(reply) ==
    /\ probe.scanner = "certificates"
    /\ probe.pc = "fetching"
    /\ LET none == ScanOutcome("No certificates found in transparency logs", None,
                      Some(<<"No SSL certificates found - if you use HTTPS, this might indicate a very new certificate">>))
           found == ScanOutcome("Found 1 total certificates, 1 currently active", None,
                                Some(<<>>))
       IN probe' = Heard(reply \in FailedReplies \cup {"null", "object", "nulls"},
            IF reply \in FailedReplies \cup {"null", "empty"}
            THEN Resolved(probe, [none EXCEPT !.data.certCount = Some(0)])
            ELSE IF reply \in {"object", "nulls"} THEN Rejected(probe)
            ELSE Resolved(probe, [found EXCEPT !.data.certCount = Some(1)]))
    /\ UNCHANGED <<scanVars, besidesProbe>>

\* ------------------------------------------------------- security headers
ProxyUrl == "https://corsproxy.io/"

\* what the securityheaders.com request may come to: a failure (malformed:
\* the body cannot be read as text), a page with a grade and no missing
\* header, or a page in which no grade, score or section is found
HeadersReplies == FailedReplies \cup {"graded", "unrecognised"}

\* err.message of what the try block of securityHeadersScanner.run throws
HeadersThrown(kind) ==
    CASE kind = "network" -> "Failed to fetch"
      [] kind = "status" -> "securityheaders.com returned 500"
      [] OTHER -> "body stream already read"

\* securityHeadersScanner.run(domain) up to its first await
SecurityHeadersRun(domain) ==
    /\ probe.pc = "idle"
    /\ probe' = [Started("securityHeaders", domain) EXCEPT !.pc = "fetching",
                                                           !.requests = <<ProxyUrl>>]
    /\ UNCHANGED <<scanVars, besidesProbe>>

\* the request is answered and run returns
SecurityHeadersReply(reply) ==
    /\ probe.scanner = "securityHeaders"
    /\ probe.pc = "fetching"
    /\ LET unavailable ==
               [ScanOutcome("Security headers check unavailable",
                            Some(HeadersThrown(reply)),
                            Some(<<"Could not retrieve security headers analysis">>))
                   EXCEPT !.data.status = Some("unavailable")]
           graded == [ScanOutcome("Grade: A (95/100)", None, None)
                         EXCEPT !.data.status = Some("available"),
                                !.data.grade = Some("A")]
           analyzed == [ScanOutcome("Security headers analyzed", None, None)
                           EXCEPT !.data.status = Some("available")]
       IN probe' = Heard(reply \in FailedReplies \cup {"unrecognised"},
            IF reply \in FailedReplies THEN Resolved(probe, unavailable)
            ELSE IF reply = "graded" THEN Resolved(probe, graded)
            ELSE Resolved(probe, analyzed))
    /\ UNCHANGED <<scanVars, besidesProbe>>

\* -------------------------------------------------------- all six scanners
\* one call of one scanner's run, made directly, and the replies to its
\* requests
NextUpstream ==
    \/ \E domain \in ProbeDomains : DnsRun(domain)
    \/ \E reply \in DnsReplies : DnsReply(reply)
    \/ \E domain \in ProbeDomains : EmailAuthRun(domain)
    \/ \E reply \in DnsReplies : EmailAuthReply(reply)
    \/ \E replies \in [1..MaxSelectors -> DnsReplies] : EmailAuthDkimReplies(replies)
    \/ \E domain \in ProbeDomains : CertificateRun(domain)
    \/ \E reply \in CertificateReplies : CertificateReply(reply)
    \/ \E domain \in ProbeDomains : RdapRun(domain)
    \/ \E reply \in BootstrapReplies : RdapBootstrapReply(reply)
    \/ \E reply \in ServerReplies : RdapServerReply(reply)
    \/ \E domain \in ProbeDomains, latency \in Latencies :
          SslLabsRun(domain, FALSE, latency)
    \/ \E reply \in AnalysisReplies : SslLabsReply(reply)
    \/ \E latency \in Latencies : SslLabsPollTimer(latency)
    \/ \E domain \in ProbeDomains : SecurityHeadersRun(domain)
    \/ \E reply \in HeadersReplies : SecurityHeadersReply(reply)

SpecUpstream == Init /\ [][NextUpstream]_vars

\* ------------------------------------------- SSL Labs: analysis of READY
\* most endpoints in a READY result
MaxEndpoints == 2

\* the keys of gradeMap
Grades == {"A+", "A", "A-", "B", "C", "D", "E", "F", "T", "M"}

\* gradeMap[grade]
gradeMap(grade) ==
    CASE grade = "A+" -> 100 [] grade = "A" -> 95 [] grade = "A-" -> 90
      [] grade = "B" -> 80 [] grade = "C" -> 70 [] grade = "D" -> 60
      [] grade = "E" -> 50 [] grade = "F" -> 40 [] grade = "T" -> 30
      [] OTHER -> 20

\* the orders a.localeCompare(b) may put the grades in: a string sorts
\* before those it is a prefix of, and letters sort alphabetically; which of
\* "A-" and "A+" comes first is left to the collation in use
Collations ==
    {<<"A", "A-", "A+", "B", "C", "D", "E", "F", "M", "T">>,
     <<"A", "A+", "A-", "B", "C", "D", "E", "F", "M", "T">>}

\* endpoint.grade of each endpoint, in order; None for an ungraded endpoint
GradeLists ==
    UNION {[1..n -> {None} \cup {Some(g) : g \in Grades}] : n \in 0..MaxEndpoints}

\* [...new Set(grades)].sort((a, b) => a.localeCompare(b))
uniqueGrades(endpoints, collation) ==
    SelectSeq(collation, LAMBDA g : \E k \in DOMAIN endpoints : endpoints[k] = Some(g))

\* data.lowestGrade: uniqueGrades[uniqueGrades.length - 1] || null
lowestGrade(endpoints, collation) ==
    LET sorted == uniqueGrades(endpoints, collation)
    IN IF sorted = <<>> THEN None ELSE Some(sorted[Len(sorted)])

\* the part of sslLabsScanner.run that grades a READY result
GradeEndpoints ==
    /\ calc.fn = "lowestGrade"
    /\ calc.out = None
    /\ calc' = [calc EXCEPT !.out =
                  Some(lowestGrade(calc.arg[1].endpoints, calc.arg[1].collation))]
    /\ UNCHANGED <<scanVars, besidesCalc>>

\* the HSTS policy threshold, in seconds
HstsMinAge == 15768000

\* details.hstsPolicy of an endpoint that has details: missing, or a policy
\* with a status and, possibly, a maxAge
HstsPolicies ==
    {None}
    \cup {Some([status |-> st, maxAge |-> age]) :
            st \in {"absent", "present", "unknown", "disabled"},
            age \in {None} \cup {Some(n) : n \in {0, 1, HstsMinAge - 1, HstsMinAge,
                                                  HstsMinAge + 1}}}

\* the HSTS check of one endpoint: the warnings it pushes
HstsWarnings(hstsPolicy) ==
    IF hstsPolicy = None \/ hstsPolicy[1].status = "absent"
    THEN <<"HSTS not configured">>
    ELSE IF /\ hstsPolicy[1].status = "present"
            /\ hstsPolicy[1].maxAge # None
            /\ hstsPolicy[1].maxAge[1] # 0
            /\ hstsPolicy[1].maxAge[1] < HstsMinAge
    THEN <<"HSTS max-age is too short (should be 6+ months)">>
    ELSE <<>>

\* the part of sslLabsScanner.run that checks an endpoint's HSTS policy
CheckHsts ==
    /\ calc.fn = "hsts"
    /\ calc.out = None
    /\ calc' = [calc EXCEPT !.out = Some(HstsWarnings(calc.arg[1]))]
    /\ UNCHANGED <<scanVars, besidesCalc>>

\* the state in which an analysis is about to be evaluated on one of args
InitCalc(fn, args) ==
    /\ ScanInit
    /\ interp = NoInterp
    /\ app = AppInit
    /\ dkim = DkimInit
    /\ probe = ProbeInit
    /\ calc \in {Calc(fn, Some(a)) : a \in args}

InitSslAnalysis ==
    \/ InitCalc("lowestGrade",
                {[endpoints |-> e, collation |-> c] : e \in GradeLists, c \in Collations})
    \/ InitCalc("hsts", HstsPolicies)

NextSslAnalysis == GradeEndpoints \/ CheckHsts

SpecSslAnalysis == InitSslAnalysis /\ [][NextSslAnalysis]_vars

\* ------------------------------------------------ certificate analysis
\* certificateScanner.run after fetchCertificates (certificateScanner.ts).
\* Times are offsets from `now`, counted in parts of a day.

\* the most certificates in a transparency log answer
MaxCerts == 3

\* the parts a day is divided in: times are known to half a day
DayParts == 2

\* 1000 * 60 * 60 * 24 milliseconds, in parts of a day
MsPerDay == DayParts

CommonNames == {"example.com", "www.example.com"}

\* not_before of a record, before now
NotBefores == {-800, -400}

\* not_after of a record: 31, 30.5 and 10 days ago, and in half a day, 7, 30
\* and 350 days
NotAfters == {-62, -61, -20, 1, 14, 60, 700}

\* the records crt.sh answers with, id being the place in the answer
CertificateLists ==
    UNION {[1..n -> [common_name : CommonNames, not_before : NotBefores,
                     not_after : NotAfters]] : n \in 0..MaxCerts}

\* Math.floor((notAfter.getTime() - now.getTime()) / (1000 * 60 * 60 * 24))
daysUntilExpiry(notAfter) == notAfter \div MsPerDay

\* Math.floor((now.getTime() - cert.notAfter.getTime()) / (1000 * 60 * 60 * 24))
daysSinceExpiry(notAfter) == (0 - notAfter) \div MsPerDay

parsedCerts(certificates) ==
    [i \in 1..Len(certificates) |->
        [id |-> i,
         commonName |-> certificates[i].common_name,
         notBefore |-> certificates[i].not_before,
         notAfter |-> certificates[i].not_after,
         isExpired |-> certificates[i].not_after < 0,
         daysUntilExpiry |-> daysUntilExpiry(certificates[i].not_after)]]

\* cert put in its place in a list sorted by b.notBefore - a.notBefore, behind
\* the certificates that compare equal to it (the sort is stable)
InsertCert(cert, sorted) ==
    LET ahead == {i \in 1..Len(sorted) : sorted[i].notBefore >= cert.notBefore}
        k == Cardinality(ahead)
    IN  SubSeq(sorted, 1, k) \o <<cert>> \o SubSeq(sorted, k + 1, Len(sorted))

RECURSIVE MostRecentFirst(_)
MostRecentFirst(certs) ==
    IF certs = <<>> THEN <<>>
    ELSE InsertCert(certs[Len(certs)], MostRecentFirst(SubSeq(certs, 1, Len(certs) - 1)))

\* the forEach over the sorted certificates: the first of a common name stays
RECURSIVE certsByName(_)
certsByName(certs) ==
    IF certs = <<>> THEN <<>>
    ELSE LET kept == certsByName(SubSeq(certs, 1, Len(certs) - 1))
             cert == certs[Len(certs)]
         IN  IF \E i \in 1..Len(kept) : kept[i].commonName = cert.commonName
             THEN kept
             ELSE Append(kept, cert)

NotExpired(cert) == ~cert.isExpired

\* keeps the first certificate of a name although a later one is more recent
activeCertsKeepsOldest(parsed) ==
    certsByName(SelectSeq(parsed, NotExpired))

activeCerts(parsed) ==
    certsByName(MostRecentFirst(SelectSeq(parsed, NotExpired)))

IsExpired(cert) == cert.isExpired

expiredCerts(parsed) == SelectSeq(parsed, IsExpired)

Within30(cert) == cert.daysUntilExpiry <= 30 /\ cert.daysUntilExpiry > 0

Within7(cert) == cert.daysUntilExpiry <= 7 /\ cert.daysUntilExpiry > 0

expiringIn30Days(active) == SelectSeq(active, Within30)

expiringIn7Days(active) == SelectSeq(active, Within7)

RenewImmediately(cert) ==
    [text |-> "renew immediately", commonName |-> cert.commonName,
     days |-> cert.daysUntilExpiry]

PlanRenewal(cert) ==
    [text |-> "plan renewal soon", commonName |-> cert.commonName,
     days |-> cert.daysUntilExpiry]

\* Analysis 1: issues and warnings of the expiring certificates
ExpiryFindings(active) ==
    LET in7 == expiringIn7Days(active)
        in30 == expiringIn30Days(active)
    IN  IF Len(in7) > 0
        THEN [issues |-> [i \in 1..Len(in7) |-> RenewImmediately(in7[i])],
              warnings |-> <<>>]
        ELSE [issues |-> <<>>,
              warnings |-> [i \in 1..Len(in30) |-> PlanRenewal(in30[i])]]

RecentlyExpired(cert) == daysSinceExpiry(cert.notAfter) <= 30

recentlyExpired(parsed) == SelectSeq(expiredCerts(parsed), RecentlyExpired)

expiredWithoutReplacement(parsed, active) ==
    LET NoReplacement(expired) ==
            ~\E i \in 1..Len(active) : active[i].commonName = expired.commonName
    IN  SelectSeq(recentlyExpired(parsed), NoReplacement)

\* Analysis 5: the warning of the certificates expired and not replaced
ExpiredWarnings(without) ==
    IF Len(without) > 0
    THEN <<[text |-> "expired recently without replacement",
            count |-> Len(without),
            certNames |-> [i \in 1..Len(without) |-> without[i].commonName]]>>
    ELSE <<>>

\* what run returns for a non-empty answer: the findings of analyses 1 and 5
\* and the data they are read from
CertificateAnalysis(certificates) ==
    LET parsed == parsedCerts(certificates)
        active == activeCerts(parsed)
        expiry == ExpiryFindings(active)
        without == expiredWithoutReplacement(parsed, active)
    IN  [parsed |-> parsed,
         activeCerts |-> active,
         activeCertCount |-> Some(Len(active)),
         expiredCertCount |-> Some(Len(expiredCerts(parsed))),
         expiringIn30Days |-> Some(Len(expiringIn30Days(active))),
         expiringIn7Days |-> Some(Len(expiringIn7Days(active))),
         expiredWithoutReplacement |->
             [i \in 1..Len(without) |-> without[i].commonName],
         issues |-> expiry.issues,
         warnings |-> expiry.warnings \o ExpiredWarnings(without)]

\* certificateScanner.run analyses the answer of crt.sh
AnalyzeCertificates ==
    /\ calc.fn = "certificates"
    /\ calc.out = None
    /\ calc.arg[1] # <<>>
    /\ calc' = [calc EXCEPT !.out = Some(CertificateAnalysis(calc.arg[1]))]
    /\ UNCHANGED <<scanVars, besidesCalc>>

\* run returns at once when crt.sh answers with no certificate: its data is
\* { certificates: [], certCount: 0 }, without the counts of the analysis
NoCertificates ==
    /\ calc.fn = "certificates"
    /\ calc.out = None
    /\ calc.arg[1] = <<>>
    /\ calc' = [calc EXCEPT !.out =
                  Some([parsed |-> <<>>, activeCerts |-> <<>>, activeCertCount |-> None,
                        expiredCertCount |-> None, expiringIn30Days |-> None,
                        expiringIn7Days |-> None, expiredWithoutReplacement |-> <<>>,
                        issues |-> <<"No SSL certificates found">>,
                        warnings |-> <<>>])]
    /\ UNCHANGED <<scanVars, besidesCalc>>

InitCertificates == InitCalc("certificates", CertificateLists)

NextCertificates == AnalyzeCertificates \/ NoCertificates

SpecCertificates == InitCertificates /\ [][NextCertificates]_vars

\* ------------------------------------------- email authentication: policy
\* emailAuthScanner.run after its lookups (part_002 22-168). A record is the
\* list of the pieces of its text, cut so that every text the analysis looks
\* for is a run of pieces: 'sp=none' is "s", "p=", "none".

\* the SPF record found by extractSPF, if any
SpfRecords ==
    {None,
     Some(<<"v=spf1", " ", "~", "all">>),
     Some(<<"v=spf1", " ", "-", "all">>),
     Some(<<"v=spf1", " ", "+", "all">>),
     Some(<<"v=spf1", " ", "?", "all">>),
     Some(<<"v=spf1", " ", "all">>),
     Some(<<"v=spf1", " ", "include:", "_spf.example.com">>),
     Some(<<"v=spf1", " ", "include:", "mail", "-", "all", ".example.com", " ", "~", "all">>),
     Some(<<"v=spf1", " ", "include:", "mail", "-", "all", ".example.com", " ", "?", "all">>)}

\* the p= tag of a DMARC record
PolicyTags ==
    {<<>>,
     <<";", " ", "p=", "none">>,
     <<";", " ", "p=", "quarantine">>,
     <<";", " ", "p=", "reject">>,
     <<";", " ", "P=", "REJECT">>,
     <<";", " ", "p=", "strict">>}

\* its sp= tag
SubdomainTags ==
    {<<>>,
     <<";", " ", "s", "p=", "none">>,
     <<";", " ", "s", "p=", "quarantine">>,
     <<";", " ", "s", "p=", "reject">>}

\* its rua= tag
ReportTags == {<<>>, <<";", " ", "rua=", "mailto:dmarc@example.com">>}

\* its pct= tag
PercentTags == {<<>>, <<";", " ", "pct=", "100">>, <<";", " ", "pct=", "50">>}

\* the DMARC record found by fetchDMARC, if any
DmarcRecords ==
    {None} \cup
    {Some(<<"v=DMARC1">> \o p \o sp \o rua \o pct) :
        p \in PolicyTags, sp \in SubdomainTags, rua \in ReportTags, pct \in PercentTags}

\* the selectors found by checkDKIM
SelectorsFound == {<<>>, <<"default">>}

\* dmarc && (dmarc.toLowerCase().includes('p=quarantine') ||
\*           dmarc.toLowerCase().includes('p=reject'))
dmarcEnforced(dmarc) ==
    /\ dmarc # None
    /\ \/ Includes(LowerWords(dmarc[1]), <<"p=", "quarantine">>)
       \/ Includes(LowerWords(dmarc[1]), <<"p=", "reject">>)

HardFailDeliverability ==
    "SPF uses hard fail (-all) which can cause deliverability issues with forwarded emails"

HardFailCombine ==
    "SPF uses hard fail (-all). For best security AND deliverability, combine soft fail (~all) with DMARC enforcement"

\* (spf.match(/include:/g) || []).length + (spf.match(/redirect=/g) || []).length
lookupCount(spf) ==
    Cardinality({k \in DOMAIN spf : spf[k] \in {"include:", "redirect="}})

\* looks for -all before ~all
SpfFindingsHardFailFirst(spf, dmarc) ==
    IF spf = None THEN [issues |-> <<"No SPF record found">>, warnings |-> <<>>]
    ELSE IF Includes(spf[1], <<"-", "all">>)
         THEN [issues |-> <<>>,
               warnings |-> IF dmarcEnforced(dmarc) THEN <<HardFailDeliverability>>
                            ELSE <<HardFailCombine>>]
         ELSE IF Includes(spf[1], <<"~", "all">>)
              THEN [issues |-> <<>>, warnings |-> <<>>]
              ELSE IF Includes(spf[1], <<"+", "all">>)
                   THEN [issues |-> <<"SPF allows all senders (+all)">>, warnings |-> <<>>]
                   ELSE IF Includes(spf[1], <<"?", "all">>)
                        THEN [issues |-> <<>>, warnings |-> <<"SPF uses neutral policy (?all)">>]
                        ELSE IF ~Includes(spf[1], <<"all">>)
                             THEN [issues |-> <<>>,
                                   warnings |-> <<"SPF record missing 'all' mechanism">>]
                             ELSE [issues |-> <<>>, warnings |-> <<>>]

\* SPF Validation
SpfFindings(spf, dmarc) ==
    IF spf = None THEN [issues |-> <<"No SPF record found">>, warnings |-> <<>>]
    ELSE LET policy ==
                 IF Includes(spf[1], <<"~", "all">>)
                 THEN [issues |-> <<>>, warnings |-> <<>>]
                 ELSE IF Includes(spf[1], <<"-", "all">>)
                      THEN [issues |-> <<>>,
                            warnings |-> IF dmarcEnforced(dmarc)
                                         THEN <<HardFailDeliverability>>
                                         ELSE <<HardFailCombine>>]
                      ELSE IF Includes(spf[1], <<"+", "all">>)
                           THEN [issues |-> <<"SPF allows all senders (+all)">>,
                                 warnings |-> <<>>]
                           ELSE IF Includes(spf[1], <<"?", "all">>)
                                THEN [issues |-> <<>>,
                                      warnings |-> <<"SPF uses neutral policy (?all)">>]
                                ELSE IF ~Includes(spf[1], <<"all">>)
                                     THEN [issues |-> <<>>,
                                           warnings |-> <<"SPF record missing 'all' mechanism">>]
                                     ELSE [issues |-> <<>>, warnings |-> <<>>]
             lookups ==
                 IF lookupCount(spf[1]) > 10
                 THEN [issues |-> <<"SPF exceeds 10 DNS lookup limit">>, warnings |-> <<>>]
                 ELSE IF lookupCount(spf[1]) > 8
                      THEN [issues |-> <<>>, warnings |-> <<"SPF has many DNS lookups">>]
                      ELSE [issues |-> <<>>, warnings |-> <<>>]
         IN  [issues |-> policy.issues \o lookups.issues,
              warnings |-> policy.warnings \o lookups.warnings]

\* DMARC Validation
DmarcFindings(dmarc) ==
    IF dmarc = None THEN [issues |-> <<"No DMARC record found">>, warnings |-> <<>>]
    ELSE LET dmarcLower == LowerWords(dmarc[1])
             policy ==
                 IF Includes(dmarcLower, <<"p=", "none">>)
                 THEN <<"DMARC policy is 'none' - monitoring only">>
                 ELSE IF Includes(dmarcLower, <<"p=", "quarantine">>)
                      THEN <<"DMARC policy is 'quarantine' - consider upgrading to 'reject'">>
                      ELSE IF Includes(dmarcLower, <<"p=", "reject">>)
                           THEN <<>>
                           ELSE <<"DMARC policy not clearly defined">>
             subdomain ==
                 IF ~Includes(dmarcLower, <<"s", "p=">>)
                 THEN <<"DMARC missing subdomain policy (sp=)">> ELSE <<>>
             reporting ==
                 IF ~Includes(dmarcLower, <<"rua=">>) /\ ~Includes(dmarcLower, <<"ruf=">>)
                 THEN <<"DMARC has no reporting emails (rua/ruf)">> ELSE <<>>
             percentage ==
                 IF Includes(dmarcLower, <<"pct=">>) /\ ~Includes(dmarcLower, <<"pct=", "100">>)
                 THEN <<"DMARC applies to only part of emails">> ELSE <<>>
         IN  [issues |-> <<>>,
              warnings |-> policy \o subdomain \o reporting \o percentage]

\* DKIM Validation
DkimFindings(dkimSelectorsFound) ==
    IF Len(dkimSelectorsFound) = 0
    THEN [issues |-> <<"No DKIM selectors detected">>,
          warnings |-> <<"Note: Checked ~40 common DKIM selectors",
                         "To verify DKIM is configured, try: ...">>]
    ELSE [issues |-> <<>>, warnings |-> <<"Found DKIM selector(s)">>]

\* what run returns for the records its lookups found
EmailAuthAnalysis(spf, dmarc, dkimSelectorsFound) ==
    LET s == SpfFindings(spf, dmarc)
        d == DmarcFindings(dmarc)
        k == DkimFindings(dkimSelectorsFound)
    IN  [issues |-> s.issues \o d.issues \o k.issues,
         warnings |-> s.warnings \o d.warnings \o k.warnings,
         hasSpf |-> spf # None,
         hasDmarc |-> dmarc # None,
         hasDkim |-> Len(dkimSelectorsFound) > 0,
         dmarcEnforced |-> dmarcEnforced(dmarc)]

\* emailAuthScanner.run analyses the records found
AnalyzeEmailAuth ==
    /\ calc.fn = "emailAuth"
    /\ calc.out = None
    /\ calc' = [calc EXCEPT !.out =
                  Some(EmailAuthAnalysis(calc.arg[1].spf, calc.arg[1].dmarc,
                                         calc.arg[1].dkimSelectorsFound))]
    /\ UNCHANGED <<scanVars, besidesCalc>>

InitEmailPolicy ==
    InitCalc("emailAuth",
             {[spf |-> spf, dmarc |-> dmarc, dkimSelectorsFound |-> found] :
                 spf \in SpfRecords, dmarc \in DmarcRecords, found \in SelectorsFound})

NextEmailPolicy == AnalyzeEmailAuth

SpecEmailPolicy == InitEmailPolicy /\ [][NextEmailPolicy]_vars

\* ------------------------------------------------- DNS records: the summary
\* dnsScanner.run with the answers of its five lookups told apart by their
\* values (dnsScanner.ts 15-94, fetchDNS domainChecks.ts 21-33).

\* most values in the Answer of a lookup
MaxAnswers == 2

\* the data of the entries of an Answer: values of public hosts, or one entry
\* whose data is empty
AnswerData ==
    {[i \in 1..n |-> "value"] : n \in 0..MaxAnswers} \cup {<<"">>}

\* what a lookup comes to: a failure (res.ok false, or fetch or json throws),
\* a body without Answer, or a body with an Answer
Lookups ==
    {[ok |-> FALSE, Answer |-> None], [ok |-> TRUE, Answer |-> None]}
    \cup {[ok |-> TRUE, Answer |-> Some(data)] : data \in AnswerData}

\* fetchDNS, of what its request came to
fetchDNSResult(rrtype, lookup) ==
    IF ~lookup.ok THEN None
    ELSE IF lookup.Answer = None THEN Some([type |-> rrtype, data |-> <<>>])
    ELSE LET Filled(d) == d # ""
         IN  Some([type |-> rrtype, data |-> SelectSeq(lookup.Answer[1], Filled)])

\* for (const t of types) { const r = await fetchDNS(domain, t); if (r) records.push(r) }
RECURSIVE CollectRecords(_, _)
CollectRecords(lookups, n) ==
    IF n = 0 THEN <<>>
    ELSE LET r == fetchDNSResult(DnsTypes[n], lookups[n])
         IN  CollectRecords(lookups, n - 1) \o (IF r = None THEN <<>> ELSE <<r[1]>>)

\* records.find((r) => r.type === t)?.data || []
RecordsOf(records, t) ==
    IF \E k \in DOMAIN records : records[k].type = t
    THEN records[CHOOSE k \in DOMAIN records : records[k].type = t].data
    ELSE <<>>

\* the issues run pushes for values that are public addresses and host names
DnsValidation(records) ==
    LET a == Len(RecordsOf(records, "A"))
        aaaa == Len(RecordsOf(records, "AAAA"))
        mx == Len(RecordsOf(records, "MX"))
        cname == Len(RecordsOf(records, "CNAME"))
    IN  (IF a = 0 /\ aaaa = 0 /\ cname = 0
         THEN <<"No A, AAAA, or CNAME records found - domain may not be accessible via web browser">>
         ELSE <<>>)
        \o (IF cname > 0 /\ (a > 0 \/ aaaa > 0 \/ mx > 0)
            THEN <<"CNAME conflict detected - CNAME records cannot coexist with A, AAAA, or MX records">>
            ELSE <<>>)
        \o (IF cname > 1
            THEN <<"Multiple CNAME records found - only one CNAME record should exist per name">>
            ELSE <<>>)
        \o (IF mx = 0
            THEN <<"No MX records found - email delivery to this domain will fail">>
            ELSE <<>>)

\* records.map((r) => `${r.type}:${r.data.length}`), to be joined with ', '
recordCounts(records) ==
    [k \in DOMAIN records |-> [type |-> records[k].type, count |-> Len(records[k].data)]]

\* the summary: 'No DNS records found', or 'Found ' and the record counts
DnsSummary(records) ==
    IF Len(records) > 0
    THEN [text |-> "Found", recordCounts |-> recordCounts(records)]
    ELSE [text |-> "No DNS records found", recordCounts |-> <<>>]

\* dnsScanner.run, of what its five lookups came to
DnsAnalysis(lookups) ==
    LET records == CollectRecords(lookups, Len(DnsTypes))
    IN  [records |-> records,
         summary |-> DnsSummary(records),
         issues |-> DnsValidation(records)]

\* dnsScanner.run collects, validates and summarises
AnalyzeDns ==
    /\ calc.fn = "dns"
    /\ calc.out = None
    /\ calc' = [calc EXCEPT !.out = Some(DnsAnalysis(calc.arg[1]))]
    /\ UNCHANGED <<scanVars, besidesCalc>>

InitDnsSummary == InitCalc("dns", [1..Len(DnsTypes) -> Lookups])

NextDnsSummary == AnalyzeDns

SpecDnsSummary == InitDnsSummary /\ [][NextDnsSummary]_vars

\* ------------------------------------- DomainScanner: saving DKIM selectors
\* The component's onScan and handleSaveDkimSelectors (DomainScanner/index.tsx
\* 23-74) over runScanners, the scan cache and the selector storage, which is
\* keyed by the domain scanned.

\* the domains onScan passes on: validation.normalizedDomain
ValidDomains == {d \in AppDomains : Normalize(d) = d}

\* the descriptors of the scans of the component: every run answers in time
RescanCandidates ==
    {Descriptor(id, Some(ShippedTimeout(id)), FALSE, "resolveIssues") : id \in Range(ShippedIds)}

\* the Email Authentication scanner is among the SCANNERS
EmailAuthShipped == \E i \in DOMAIN SCANNERS : SCANNERS[i].id = "emailAuth"

\* onScan with an input that validateDomain accepts: setCurrentDomain and
\* runScanners
OnScan(domain, rate) ==
    /\ app.pc = "idle"
    /\ pc = "idle"
    /\ EmailAuthShipped
    /\ app.calls < MaxCalls
    /\ app' = [runScanners(app, domain, rate) EXCEPT !.currentDomain = Some(domain),
                                                     !.rescan = None]
    /\ UNCHANGED <<scanVars, besidesApp>>

\* getDkimSelectors(domain) as the emailAuth run calls it
customSelectors(domain) ==
    IF dkim.storage[domain] = None THEN <<>>
    ELSE JsonParse(dkim.storage[domain][1]).selectors

\* the emailAuth run of the scan under way reads the custom selectors, the
\* ones checkDKIM is then called with
EmailAuthReadsSelectors ==
    /\ app.pc = "running"
    /\ pc = "running"
    /\ \E i \in DOMAIN tasks : SCANNERS[i].id = "emailAuth" /\ tasks[i].run = "pending"
    /\ app.customSelectors[app.domain[1]] = None
    /\ app' = [app EXCEPT !.customSelectors[app.domain[1]] =
                              Some(customSelectors(app.domain[1]))]
    /\ UNCHANGED <<scanVars, besidesApp>>

\* the run of scanner i settles; the emailAuth run has read the selectors
RescanRunSettles(i) ==
    /\ SCANNERS[i].id = "emailAuth" => app.customSelectors[app.domain[1]] # None
    /\ RunSettles(i)

\* handleSaveDkimSelectors(selectors): saveDkimSelectors(currentDomain,
\* selectors), then runScanners(currentDomain) up to its return, throw or
\* await; quotaExceeded: localStorage.setItem throws
HandleSaveDkimSelectors(selectors, quotaExceeded, rate) ==
    /\ app.currentDomain # None
    /\ app.pc = "idle"
    /\ pc = "idle"
    /\ app.calls < MaxCalls
    /\ Len(dkim.log) < MaxDkimCalls
    /\ LET domain == app.currentDomain[1]
           text == JsonStringify([domain |-> domain, selectors |-> selectors,
                                  updatedAt |-> now])
       IN /\ dkim' = [dkim EXCEPT
                        !.storage = IF quotaExceeded THEN @
                                    ELSE [@ EXCEPT ![domain] = Some(text)],
                        !.log = Append(@, [op |-> "save", domain |-> domain,
                                           selectors |-> selectors,
                                           ok |-> ~quotaExceeded])]
          /\ app' = [runScanners(app, domain, rate) EXCEPT
                        !.rescan = Some([domain |-> domain, selectors |-> selectors,
                                         saved |-> ~quotaExceeded])]
    /\ UNCHANGED <<scanVars, interp, probe, calc>>

\* the entry of a domain leaves the scan cache: it is kept for 30 minutes
CacheExpires(domain) ==
    /\ app.pc = "idle"
    /\ CacheGet(app.cache, domain) # None
    /\ app' = [app EXCEPT !.cache[domain] = None]
    /\ UNCHANGED <<scanVars, besidesApp>>

\* the component on a fresh page
InitRescan ==
    /\ ScanInit
    /\ interp = NoInterp
    /\ app = AppInit
    /\ dkim = [DkimInit EXCEPT !.storage = [d \in AppDomains |-> None]]
    /\ probe = ProbeInit
    /\ calc = NoCalc

\* scans and saves of selectors made from the component
NextRescan ==
    \/ \E d \in RescanCandidates : app.calls = 0 /\ InShippedOrder(d) /\ Register(d)
    \/ \E domain \in ValidDomains, rate \in RateAnswers : OnScan(domain, rate)
    \/ AppRunAll
    \/ EmailAuthReadsSelectors
    \/ \E i \in DOMAIN tasks : RescanRunSettles(i)
    \/ ThenHandler
    \/ Finish
    \/ AppResume
    \/ \E selectors \in SelectorLists, q \in BOOLEAN, rate \in RateAnswers :
          HandleSaveDkimSelectors(selectors, q, rate)
    \/ \E domain \in ValidDomains : CacheExpires(domain)

SpecRescan == InitRescan /\ [][NextRescan]_vars

\* ------------------------------------------------------------ properties
Terminal == {"complete", "error"}

\* positions of the invocation log at which scanner i's handlers notified
CallsBy(i) == {k \in DOMAIN progressCalls : progressCalls[k].by = i}

\* C1: once runAllScanners has resolved, the aggregate's scanners list holds
\* one result per registry entry, in registry order (entry i carries the id
\* of descriptor i), every result is complete or error, and the aggregate's
\* domain is the trimmed, lower-cased argument.
C1_OneTerminalResultPerScanner ==
    pc = "resolved" =>
        /\ aggregate # None
        /\ aggregate[1].domain = trimmed[1]
        /\ \A k \in DOMAIN trimmed[1] : trimmed[1][k] \notin {" ", "A"}
        /\ DOMAIN results = DOMAIN SCANNERS
        /\ \A i \in DOMAIN SCANNERS :
              /\ results[i].id = SCANNERS[i].id
              /\ results[i].status \in Terminal

\* C1 witness: a resolved call in which the second scanner finished before
\* the first, one scanner ended complete and a never-settling one ended error
C1_Witness ==
    /\ pc = "resolved"
    /\ Len(SCANNERS) >= 2
    /\ SCANNERS[1].run = "never"
    /\ results[1].status = "error"
    /\ results[2].status = "complete"
    /\ results[2].finishedAt[1] < results[1].finishedAt[1]

\* the timeout scanner i of the registry is to race against, while the
\* default timeout is the one it was dispatched under
TimeoutOf(i) == EffectiveTimeout(SCANNERS[i], DEFAULT_SCANNER_TIMEOUT)

\* the result of a never-settling scanner dispatched at start, as of now:
\* running until its timeout has elapsed, then error with the timeout message
\* and a finishedAt not before the timeout
TimedOutOnTime(i, start, status, error, finishedAt) ==
    /\ now < start + TimeoutOf(i) => status = "running"
    /\ now > start + TimeoutOf(i) => status = "error"
    /\ status # "running" =>
          /\ status = "error"
          /\ error = Some(TimeoutMessage(LabelOf(SCANNERS[i].id), TimeoutOf(i)))
          /\ finishedAt[1] >= start + TimeoutOf(i)

\* C2, the part about every state
C2_NeverBeforeTimeout ==
    /\ \A i \in DOMAIN results :
          SCANNERS[i].run = "never" =>
              TimedOutOnTime(i, results[i].startedAt, results[i].status,
                             results[i].error, results[i].finishedAt)
    /\ (rerun.pc \in {"running", "resolved"} /\ SCANNERS[rerun.idx].run = "never") =>
          IF rerun.result = None
          THEN TimedOutOnTime(rerun.idx, rerun.startedAt, "running", None, None)
          ELSE TimedOutOnTime(rerun.idx, rerun.startedAt, rerun.result[1].status,
                              rerun.result[1].error, rerun.result[1].finishedAt)

\* C2: a scanner whose run never settles stays running until its own timeout,
\* or the default timeout when it has none, has elapsed, is then given status
\* error with the message '<label> timed out after <timeout>ms', and the
\* runAllScanners call, and likewise a runScanner call, resolves.
C2_TimeoutForcesError ==
    /\ []C2_NeverBeforeTimeout
    /\ (pc # "idle")
          ~> (\A i \in DOMAIN results :
                 SCANNERS[i].run = "never" => results[i].status = "error")
    /\ (pc = "running") ~> (pc = "resolved")
    /\ (rerun.pc = "running") ~> (rerun.pc = "resolved")

\* C2 witness: a scan has resolved in which a never-settling scanner without a
\* timeout of its own ended in error after the default timeout, and a rerun
\* of a never-settling scanner has resolved with the timeout error
C2_Witness ==
    /\ pc = "resolved"
    /\ \E i \in DOMAIN SCANNERS :
          /\ SCANNERS[i].run = "never"
          /\ SCANNERS[i].timeout = None
          /\ results[i].error =
                Some(TimeoutMessage(LabelOf(SCANNERS[i].id), DEFAULT_SCANNER_TIMEOUT))
    /\ rerun.pc = "resolved"
    /\ SCANNERS[rerun.idx].run = "never"
    /\ rerun.result[1].status = "error"

\* what of a result the two entry points are compared on; a missing issues
\* list counts as an empty one
Compared(status, data, summary, issues, error) ==
    [status |-> status, data |-> data, summary |-> summary,
     issues |-> issues, error |-> error]

\* C8 (as claimed): once a scan run with a callback that does not throw has
\* resolved and a rerun of one scanner for the same domain has resolved, the
\* rerun's result has the status, data, summary, issues and error of that
\* scanner's entry in the scan.
C8_RerunMatchesScan ==
    (pc = "resolved" /\ rerun.pc = "resolved" /\ onProgress \in {"absent", "quiet"}
        /\ Normalize(rerun.domain) = trimmed[1]) =>
        LET one == rerun.result[1]
            all == results[rerun.idx]
        IN Compared(one.status, one.data, one.summary,
                    IF one.issues = None THEN <<>> ELSE one.issues[1], one.error)
           = Compared(all.status, all.data, all.summary, all.issues, all.error)

\* ms is zero, negative, NaN or infinite
InvalidTimeout(ms) ==
    \/ ms.kind \in {"NaN", "Infinity", "-Infinity"}
    \/ ms.kind = "finite" /\ (ms.v = 0 \/ ms.v < 0)

\* C9, the part about every state: the latest setScannerTimeout call threw
\* exactly if its argument was invalid, a call that did not throw left its
\* argument as the default, and a dispatched never-settling scanner without a
\* timeout of its own is timed out after exactly the delay it was dispatched
\* with
C9_LatestCall ==
    /\ timeoutCall # None =>
          /\ timeoutCall[1].threw <=> InvalidTimeout(timeoutCall[1].ms)
          /\ ~timeoutCall[1].threw => DEFAULT_SCANNER_TIMEOUT = timeoutCall[1].ms.v
    /\ \A i \in DOMAIN results :
          (SCANNERS[i].timeout = None /\ SCANNERS[i].run = "never") =>
              /\ now < results[i].startedAt + tasks[i].timeoutMs
                    => results[i].status = "running"
              /\ results[i].status # "running" =>
                    /\ results[i].error = Some(TimeoutMessage(
                            LabelOf(SCANNERS[i].id), tasks[i].timeoutMs))
                    /\ results[i].finishedAt[1]
                            = results[i].startedAt + tasks[i].timeoutMs

\* C9, the part about every step: the default changes only in a call that
\* does not throw and then becomes the argument; a scanner without a timeout
\* of its own is dispatched with the default of that moment; and the delay
\* of a dispatched scanner is not changed by later calls
C9_EveryStep ==
    /\ DEFAULT_SCANNER_TIMEOUT' # DEFAULT_SCANNER_TIMEOUT =>
          /\ timeoutCall' # None
          /\ ~timeoutCall'[1].threw
          /\ ~InvalidTimeout(timeoutCall'[1].ms)
          /\ DEFAULT_SCANNER_TIMEOUT' = timeoutCall'[1].ms.v
    /\ (pc = "idle" /\ pc' # "idle") =>
          \A i \in DOMAIN SCANNERS :
              SCANNERS[i].timeout = None
                  => tasks'[i].timeoutMs = DEFAULT_SCANNER_TIMEOUT
    /\ pc # "idle" =>
          \A i \in DOMAIN tasks : tasks'[i].timeoutMs = tasks[i].timeoutMs

\* C9: setScannerTimeout throws for a zero, negative, NaN or infinite
\* argument and leaves the default timeout as it was; for a finite positive
\* argument it makes that argument the default, and every scanner without a
\* timeout of its own that is dispatched afterwards races against exactly it.
C9_SetScannerTimeout ==
    /\ []C9_LatestCall
    /\ [][C9_EveryStep]_vars

\* C9 witness: after setScannerTimeout(1000) a scanner without a timeout of
\* its own was dispatched and timed out after 1000 ms, and a later call with
\* an invalid argument has thrown and left the default at 1000
C9_Witness ==
    /\ timeoutCall # None
    /\ timeoutCall[1].threw
    /\ DEFAULT_SCANNER_TIMEOUT = 1000
    /\ \E i \in DOMAIN results :
          /\ SCANNERS[i].timeout = None
          /\ results[i].error = Some(TimeoutMessage(LabelOf(SCANNERS[i].id), 1000))
          /\ results[i].finishedAt = Some(results[i].startedAt + 1000)

\* the fields of a result that a terminal transition writes
Outcome(r) ==
    [status |-> r.status, data |-> r.data, issues |-> r.issues,
     error |-> r.error, finishedAt |-> r.finishedAt]

\* C3 (as claimed): a result that is complete or error keeps its status,
\* data, issues, error and finishedAt in every later step.
C3_TerminalIsFinal ==
    [][\A i \in DOMAIN results :
          results[i].status \in Terminal => Outcome(results'[i]) = Outcome(results[i])]_vars

\* what scanner's own run determines: the status, data and issues of its
\* result when the run resolves, rejects or never settles in time
OwnOutcome(scanner, domain) ==
    IF scanner.run \in ResolvingRuns
    THEN [status |-> "complete",
          data |-> Some(RunOutcome(scanner, domain).data),
          issues |-> FinalIssues(scanner, RunOutcome(scanner, domain), domain)]
    ELSE [status |-> "error", data |-> None, issues |-> <<>>]

\* C4 (as claimed): in a resolved call every scanner has the terminal status,
\* data and issues its own run determines, whatever the other scanners did.
C4_OwnRunAlone ==
    pc = "resolved" =>
        \A i \in DOMAIN SCANNERS :
            [status |-> results[i].status, data |-> results[i].data,
             issues |-> results[i].issues] = OwnOutcome(SCANNERS[i], trimmed[1])

\* C5: whenever the callback has been invoked at all, its first invocation is
\* the initial one and showed every registered scanner as running; and a
\* call given a callback has made that invocation by the time it returns its
\* promise.
C5_InitialProgressFirst ==
    /\ (pc # "idle" /\ onProgress # "absent") => progressCalls # <<>>
    /\ progressCalls # <<>> =>
          /\ progressCalls[1].by = 0
          /\ DOMAIN progressCalls[1].seen = DOMAIN SCANNERS
          /\ \A j \in DOMAIN SCANNERS : progressCalls[1].seen[j] = "running"

\* C5 witness: the callback has been invoked by a scanner's handler after the
\* initial invocation, with that scanner no longer running
C5_Witness ==
    /\ Len(SCANNERS) >= 2
    /\ Len(progressCalls) >= 2
    /\ progressCalls[2].by # 0
    /\ progressCalls[2].seen[progressCalls[2].by] \in Terminal

\* C6 (as claimed): a resolved call given a callback has invoked it N+1
\* times, once initially and exactly once by each scanner, and the invocation
\* made by a scanner showed that scanner complete or error.
C6_OneProgressPerScanner ==
    (pc = "resolved" /\ onProgress # "absent") =>
        /\ Len(progressCalls) = Len(SCANNERS) + 1
        /\ Cardinality(CallsBy(0)) = 1
        /\ \A i \in DOMAIN SCANNERS :
              /\ Cardinality(CallsBy(i)) = 1
              /\ \A k \in CallsBy(i) : progressCalls[k].seen[i] \in Terminal

\* number of issues of the results before position i
IssuesBefore(i) == Len(FlatIssues(SubSeq(results, 1, i - 1)))

\* C7: the aggregate's issues are the issues lists of the results, joined in
\* registry order: result i's issues stand, in their order, right after those
\* of results 1..i-1, and nothing else is in the list.
C7_IssuesInRegistryOrder ==
    pc = "resolved" =>
        /\ Len(aggregate[1].issues) = IssuesBefore(Len(results) + 1)
        /\ \A i \in DOMAIN results :
              \A k \in DOMAIN results[i].issues :
                  aggregate[1].issues[IssuesBefore(i) + k] = results[i].issues[k]

\* C7 witness: a resolved call whose two scanners both reported issues, the
\* second one completing before the first
C7_Witness ==
    /\ pc = "resolved"
    /\ Len(SCANNERS) >= 2
    /\ results[1].issues # <<>>
    /\ results[2].issues # <<>>
    /\ results[1].issues # results[2].issues
    /\ \E a, b \in DOMAIN progressCalls :
          a < b /\ progressCalls[a].by = 2 /\ progressCalls[b].by = 1

\* two entries of list share an id
HasDuplicateIds(list) ==
    \E i, j \in DOMAIN list : i # j /\ list[i].id = list[j].id

DocumentedOverride(scanner) ==
    \/ /\ scanner.id = "certificates"
       /\ OrZero(Field(scanner.data, "expiringIn7Days")) > 0
    \/ /\ scanner.id = "rdap"
       /\ \E k \in DOMAIN scanner.issues :
             \/ Includes(LowerWords(scanner.issues[k]), <<"expired">>)
             \/ Includes(LowerWords(scanner.issues[k]), <<"no", "nameservers">>)

\* C11 (as claimed): a complete result with zero issues is interpreted as
\* success, or as critical when a documented override applies.
C11_ZeroIssuesSuccess ==
    (interp.out # None /\ interp.scanner[1].status = "complete"
        /\ interp.scanner[1].issues = <<>>) =>
        IF DocumentedOverride(interp.scanner[1])
        THEN interp.out[1] = "critical"
        ELSE interp.out[1] = "success"

\* the payloads for which a result without issues counts as success
HealthyData(id, data) ==
    CASE id = "emailAuth" ->
            \A f \in {"hasSpf", "hasDmarc", "hasDkim", "dmarcEnforced"} :
                Field(data, f) = Some(TRUE)
      [] id = "certificates" ->
            /\ Field(data, "certCount") \notin {None, Some(0)}
            /\ Field(data, "expiringIn7Days") \in {None, Some(0)}
            /\ Field(data, "expiringIn30Days") \in {None, Some(0)}
      [] id = "rdap" -> Field(data, "error") = None
      [] id = "sslLabs" ->
            /\ Field(data, "status") = Some("READY")
            /\ Field(data, "lowestGrade") \in {Some("A+"), Some("A"), Some("A-")}
      [] id = "securityHeaders" ->
            /\ Field(data, "status") # Some("unavailable")
            /\ Field(data, "grade") \in {Some("A+"), Some("A")}
      [] OTHER -> TRUE

\* the payloads that make a result without issues critical
AlarmingData(id, data) ==
    CASE id = "emailAuth" ->
            \A f \in {"hasSpf", "hasDmarc", "hasDkim"} : Field(data, f) # Some(TRUE)
      [] id = "certificates" ->
            /\ Field(data, "certCount") \notin {None, Some(0)}
            /\ Field(data, "expiringIn7Days") \notin {None, Some(0)}
      [] id = "sslLabs" ->
            /\ Field(data, "status") = Some("READY")
            /\ Field(data, "lowestGrade") \in
                  {Some("D"), Some("E"), Some("F"), Some("T"), Some("M")}
      [] id = "securityHeaders" ->
            /\ Field(data, "status") # Some("unavailable")
            /\ Field(data, "grade") \in {Some("E"), Some("F")}
      [] OTHER -> FALSE

\* C11 (amended): for a complete result with zero issues the severity is
\* success for dns and for an unknown id whatever the data; for the other
\* five scanners it is success exactly for the healthy payloads, critical
\* exactly for the alarming ones, error only for a TLS scan whose data
\* status is ERROR, and warning or info otherwise.
C11_ZeroIssuesByData ==
    (interp.out # None /\ interp.scanner[1].status = "complete"
        /\ interp.scanner[1].issues = <<>>) =>
        LET s == interp.scanner[1]
        IN /\ s.id \in {"dns", "unknown"} => interp.out[1] = "success"
           /\ interp.out[1] = "success" <=> HealthyData(s.id, s.data)
           /\ interp.out[1] = "critical" <=> AlarmingData(s.id, s.data)
           /\ interp.out[1] = "error" <=>
                 (s.id = "sslLabs" /\ Field(s.data, "status") = Some("ERROR"))

\* C11 witness: an email authentication result with zero issues and no
\* record configured has been interpreted as critical
C11_Witness ==
    /\ interp.out = Some("critical")
    /\ interp.scanner[1].id = "emailAuth"
    /\ interp.scanner[1].status = "complete"
    /\ interp.scanner[1].issues = <<>>
    /\ interp.scanner[1].data # None
    /\ Field(interp.scanner[1].data, "hasSpf") = None

\* the step is a runScanners call
IsCall == app'.calls = app.calls + 1

\* what the cache held for the domain of the call when the call was made
Cached == CacheGet(app.cache, app'.domain[1])

C13_DeniedChangesNothing ==
    [][(IsCall /\ app'.answer # None /\ ~app'.answer[1].allowed
            /\ app'.rateChecks = app.rateChecks + 1) =>
            /\ app'.last = "denied"
            /\ app'.error = Some(RateLimitError(app'.answer[1].retryAfter))
            /\ app'.pc = "idle"
            /\ app'.runs = app.runs
            /\ UNCHANGED scanVars
            /\ app'.domainScanAggregate = app.domainScanAggregate
            /\ app'.progress = app.progress
            /\ scannerProgress' = scannerProgress
            /\ app'.stored = app.stored
            /\ app'.cache = app.cache]_vars

\* C13 witness: after a scan that filled the state, a call for another
\* domain has been denied with a retry delay of 60 seconds
C13_Witness ==
    /\ app.calls = 2
    /\ app.last = "denied"
    /\ app.error = Some(RateLimitError(60))
    /\ app.runs = 1
    /\ app.domainScanAggregate # None
    /\ app.progress # <<>>
    /\ app.stored # None
    /\ \E d \in AppDomains : CacheGet(app.cache, d) = None

\* C17 (as claimed): the list handed to the callback in any invocation keeps
\* showing, for every scanner, the status, data and issues it showed when it
\* was handed over, and the returned aggregate never changes.
C17_SnapshotsStayAsHanded ==
    [][/\ \A k \in DOMAIN progressCalls : HandedList(k)' = progressCalls[k].shown
       /\ pc = "resolved" => ReturnedAggregate' = ReturnedAggregate]_vars

\* C19 (as claimed): a result with status error has an error message, no
\* data, no summary and no issues; a complete result has no error message; a
\* running result has no finishedAt.
C19_FieldsMatchStatus ==
    \A i \in DOMAIN results :
        /\ results[i].status = "error" =>
              /\ results[i].error # None
              /\ results[i].data = None
              /\ results[i].summary = None
              /\ results[i].issues = <<>>
        /\ results[i].status = "complete" => results[i].error = None
        /\ results[i].status = "running" => results[i].finishedAt = None

\* the calls among the first n that changed what is stored for domain d:
\* saves that returned true and deletes that returned true
EffectiveCalls(d, n) ==
    {k \in 1..n : dkim.log[k].domain = d /\ dkim.log[k].ok}

\* what the claim says getDkimSelectors(d) returns after the first n calls
ExpectedSelectors(d, n) ==
    IF EffectiveCalls(d, n) = {} THEN <<>>
    ELSE LET latest == CHOOSE k \in EffectiveCalls(d, n) :
                           \A j \in EffectiveCalls(d, n) : j <= k
         IN IF dkim.log[latest].op = "save" THEN dkim.log[latest].selectors ELSE <<>>

BootstrapServices ==
    IF probe.bootstrapData[1].services = None THEN <<>>
    ELSE probe.bootstrapData[1].services[1]

\* the domain's top-level label is in no entry of the services list
NotListed ==
    \A k \in DOMAIN BootstrapServices :
        LowerLabel(probe.domain[Len(probe.domain)]) \notin BootstrapServices[k].tlds

\* C15: an RDAP run that received bootstrap data none of whose entries lists
\* the domain's top-level label resolves with the summary 'RDAP not
\* available for this TLD', and the bootstrap fetch is the only request it
\* made
C15_UnlistedTldOneRequest ==
    (/\ probe.scanner = "rdap"
     /\ probe.bootstrapData # None
     /\ NotListed)
    => /\ probe.pc = "resolved"
       /\ probe.outcome[1].summary = "RDAP not available for this TLD"
       /\ probe.requests = <<BootstrapUrl>>

\* C15 witness: the run for example.unknown has resolved on a services list
\* that has entries for other TLDs
C15_Witness ==
    /\ probe.scanner = "rdap"
    /\ probe.pc = "resolved"
    /\ probe.domain = <<"example", "unknown">>
    /\ probe.bootstrapData # None
    /\ Len(BootstrapServices) = 2
    /\ NotListed
    /\ probe.outcome[1].summary = "RDAP not available for this TLD"
    /\ probe.requests = <<BootstrapUrl>>

\* the statuses on which the polling loop goes round again
Polling == {Some("DNS"), Some("IN_PROGRESS")}

\* what holds at every point of a run of the SSL Labs scanner
TlsBounded ==
    probe.scanner = "sslLabs" =>
        /\ probe.pc # "rejected"
        /\ Len(probe.requests) >= 1
        /\ probe.pollCount <= maxPolls
        /\ Len(probe.requests) <= 1 + maxPolls
        /\ probe.pc = "sleeping" => probe.status \in Polling
        /\ (probe.pc = "fetching" /\ Len(probe.requests) > 1) => probe.status \in Polling
        /\ (probe.status # None /\ probe.status \notin Polling) =>
                probe.pc = "resolved" /\ probe.outcome # None
        /\ probe.status = Some("ERROR") =>
                probe.outcome[1].summary = "SSL Labs scan error: Unknown error"
        /\ probe.pollCount = maxPolls => probe.pc = "resolved" /\ probe.outcome # None

\* C20: a run of the SSL Labs scanner makes one initial query and at most
\* maxPolls further ones, has a poll pending only while the latest status is
\* DNS or IN_PROGRESS, has resolved once a status is READY, ERROR or anything
\* else or once maxPolls polls are made, never rejects, and, with every query
\* answered, does resolve
C20_PollingTerminates ==
    /\ []TlsBounded
    /\ (probe.scanner = "sslLabs") ~> (probe.pc = "resolved")

\* C20 witness: a run made directly has resolved after maxPolls polls that
\* all found the job in progress
C20_Witness ==
    /\ probe.scanner = "sslLabs"
    /\ probe.race = "none"
    /\ probe.pc = "resolved"
    /\ probe.pollCount = maxPolls
    /\ Len(probe.requests) = 1 + maxPolls
    /\ probe.status = Some("IN_PROGRESS")
    /\ probe.outcome[1].summary = StillInProgress(Some("IN_PROGRESS"))

\* a run made by the orchestrator has used up its polls on a job that never
\* left DNS or IN_PROGRESS
BudgetExhausted ==
    /\ probe.scanner = "sslLabs"
    /\ probe.race # "none"
    /\ probe.pc = "resolved"
    /\ probe.pollCount = maxPolls
    /\ probe.status \in Polling

\* C18: when the SSL Labs scanner, run by the orchestrator under its own
\* timeout, uses up its maxPolls polls on a job that stays in DNS or
\* IN_PROGRESS, the orchestrator's result is complete and carries the
\* scanner's 'still in progress' summary, not the timeout error
C18_BudgetEndsComplete ==
    BudgetExhausted =>
        /\ probe.result[1].status = "complete"
        /\ probe.result[1].summary = Some(StillInProgress(probe.status))

\* C14: no run of any of the six scanners rejects, and a run in which a
\* request failed (network error, non-2xx status, a body that does not parse
\* or is not of the expected shape) resolves with an outcome whose data has
\* an error field and whose issues hold at least one string
C14_FailuresBecomeOutcomes ==
    /\ probe.pc # "rejected"
    /\ (probe.failed /\ probe.pc = "resolved") =>
          /\ probe.outcome[1].data.error # None
          /\ probe.outcome[1].issues # None
          /\ probe.outcome[1].issues[1] # <<>>

\* the domain requests an RDAP run has sent, and the answers to them
DomainRequests == SubSeq(probe.requests, 2, Len(probe.requests))

\* the candidate servers were asked one at a time, in list order, and never
\* more often than there are candidates
AskedInOrder ==
    /\ Len(DomainRequests) <= Len(probe.servers)
    /\ DomainRequests = SubSeq(probe.servers, 1, Len(DomainRequests))
    /\ Len(probe.records) <= Len(DomainRequests)
    /\ Len(DomainRequests) <= Len(probe.records) + 1

\* the reason the code records for an answer that is no usable 200
ReasonOf(kind) ==
    CASE kind = "notFound" -> "Domain not found"
      [] kind = "status" -> "Server returned 500"
      [] kind = "network" -> "Failed to fetch"
      [] OTHER -> "Unexpected token < in JSON"

\* the run has resolved after every candidate was tried and none of the
\* answers was of a kind in good
AllTriedNoneIn(good) ==
    /\ probe.pc = "resolved"
    /\ probe.servers # <<>>
    /\ Len(probe.records) = Len(probe.servers)
    /\ \A k \in DOMAIN probe.records : probe.records[k].type \notin good

\* the outcome is the failure carrying the reason of the last answer
FailedWithLastReason ==
    /\ probe.outcome[1].summary = "RDAP lookup failed"
    /\ probe.outcome[1].data.error =
          Some(ReasonOf(probe.records[Len(probe.records)].type))

\* C21, as claimed: the candidates are asked in order, no request follows an
\* answer with status 200 (whether or not its body parses), and when no
\* server answers 200 the run resolves as failed with the last reason
C21_StopsAtFirst200 ==
    probe.scanner = "rdap" =>
        /\ AskedInOrder
        /\ \A k \in DOMAIN probe.records :
              probe.records[k].type \in {"ok", "malformed"} => Len(DomainRequests) = k
        /\ AllTriedNoneIn({"ok", "malformed"}) => FailedWithLastReason

\* C21, amended: the candidates are asked one at a time in list order, never
\* more often than there are candidates; no request follows a 2xx answer
\* whose body parsed; a 2xx answer whose body does not parse counts as a
\* failure of that server, like a 404, another status or a network error;
\* and when every candidate failed the run resolves with summary 'RDAP
\* lookup failed' and the reason of the last server tried, a 404 being
\* 'Domain not found'
C21_StopsAtFirstUsable ==
    probe.scanner = "rdap" =>
        /\ AskedInOrder
        /\ \A k \in DOMAIN probe.records :
              probe.records[k].type = "ok" =>
                  Len(DomainRequests) = k /\ probe.pc = "resolved"
        /\ AllTriedNoneIn({"ok"}) => FailedWithLastReason

\* C21 witness: of two candidates the first answered with a server error and
\* the second with 404, and the run resolved as failed with 'Domain not found'
C21_Witness ==
    /\ probe.scanner = "rdap"
    /\ AllTriedNoneIn({"ok"})
    /\ Len(probe.servers) = 2
    /\ probe.records[1].type = "status"
    /\ probe.records[2].type = "notFound"
    /\ probe.outcome[1].data.error = Some("Domain not found")
    /\ FailedWithLastReason

\* the grades of the graded endpoints of the result being analysed
GradesFound ==
    {g \in Grades : \E k \in DOMAIN calc.arg[1].endpoints :
                        calc.arg[1].endpoints[k] = Some(g)}

\* C22: data.lowestGrade of a READY result is the grade of smallest gradeMap
\* value among the graded endpoints, and null when no endpoint is graded
C22_LowestGradeByRanking ==
    (calc.fn = "lowestGrade" /\ calc.out # None) =>
        IF GradesFound = {} THEN calc.out[1] = None
        ELSE /\ calc.out[1] # None
             /\ calc.out[1][1] \in GradesFound
             /\ \A g \in GradesFound : gradeMap(calc.out[1][1]) <= gradeMap(g)

\* C27: an endpoint with details gets exactly one HSTS warning when its
\* policy is missing or absent or is present with a max-age, from 0 upward,
\* below HstsMinAge, and none when the max-age is HstsMinAge or more
C27_HstsWarnings ==
    (calc.fn = "hsts" /\ calc.out # None) =>
        LET hstsPolicy == calc.arg[1]
            missing == hstsPolicy = None \/ hstsPolicy[1].status = "absent"
            aged == hstsPolicy # None /\ hstsPolicy[1].maxAge # None
            short == /\ aged
                     /\ hstsPolicy[1].status = "present"
                     /\ hstsPolicy[1].maxAge[1] < HstsMinAge
            long == /\ aged
                    /\ hstsPolicy[1].status = "present"
                    /\ hstsPolicy[1].maxAge[1] >= HstsMinAge
        IN /\ (missing \/ short) => Len(calc.out[1]) = 1
           /\ long => calc.out[1] = <<>>

\* ---- certificate analysis: C23, C28, C29

\* the analysis of a non-empty answer of crt.sh has been made
Analysed == calc.fn = "certificates" /\ calc.out # None /\ calc.arg[1] # <<>>

\* the certificates of the answer that have not expired
Live(parsed) == {i \in 1..Len(parsed) : parsed[i].notAfter >= 0}

\* the active certificates whose remaining validity is above zero and at most
\* days days
ActiveWithin(out, days) ==
    {i \in 1..Len(out.activeCerts) :
        /\ out.activeCerts[i].notAfter > 0
        /\ out.activeCerts[i].notAfter <= days * DayParts}

\* the findings among list that are about the certificate cert and say text
FindingsOf(list, text, cert) ==
    {k \in 1..Len(list) : list[k].text = text /\ list[k].commonName = cert.commonName}

\* C23: each active certificate with a remaining validity above zero and up to
\* 7 days yields exactly one 'renew immediately' issue; only when no active
\* certificate is within 7 days, each active certificate within 30 days yields
\* exactly one 'plan renewal' warning; the two never appear together.
C23_ExpiryFindings ==
    Analysed =>
        LET out == calc.out[1]
            renew == {k \in 1..Len(out.issues) : out.issues[k].text = "renew immediately"}
            plan == {k \in 1..Len(out.warnings) : out.warnings[k].text = "plan renewal soon"}
        IN  /\ \A i \in ActiveWithin(out, 7) :
                   Cardinality(FindingsOf(out.issues, "renew immediately",
                                          out.activeCerts[i])) = 1
            /\ ActiveWithin(out, 7) # {} => plan = {}
            /\ ActiveWithin(out, 7) = {} =>
                   \A i \in ActiveWithin(out, 30) :
                       Cardinality(FindingsOf(out.warnings, "plan renewal soon",
                                              out.activeCerts[i])) = 1
            /\ renew = {} \/ plan = {}

\* the certificates of the answer that expired at most days days ago
ExpiredWithin(parsed, days) ==
    {i \in 1..Len(parsed) : parsed[i].notAfter < 0 /\ 0 - parsed[i].notAfter <= days * DayParts}

\* the certificates of the answer that expired fewer than days days ago
ExpiredLessThan(parsed, days) ==
    {i \in 1..Len(parsed) : parsed[i].notAfter < 0 /\ 0 - parsed[i].notAfter < days * DayParts}

\* the common name of cert has a certificate in the active set
Replaced(out, cert) ==
    \E j \in 1..Len(out.activeCerts) : out.activeCerts[j].commonName = cert.commonName

\* the ids of the certificates the 'expired recently without replacement'
\* warning is about, read from data.expiredWithoutReplacement and the warning
ExpiredWarningsOf(out) ==
    {k \in 1..Len(out.warnings) :
        out.warnings[k].text = "expired recently without replacement"}

\* the warning is there exactly when unreplaced is not empty, and names the
\* certificates of unreplaced, one name for each
NamesExactly(out, unreplaced) ==
    /\ (unreplaced = {}) = (ExpiredWarningsOf(out) = {})
    /\ Cardinality(ExpiredWarningsOf(out)) <= 1
    /\ \A k \in ExpiredWarningsOf(out) :
           /\ out.warnings[k].count = Cardinality(unreplaced)
           /\ Len(out.warnings[k].certNames) = Cardinality(unreplaced)
           /\ \A name \in CommonNames :
                  Cardinality({n \in 1..Len(out.warnings[k].certNames) :
                                   out.warnings[k].certNames[n] = name})
                  = Cardinality({i \in unreplaced : out.parsed[i].commonName = name})

\* C28: the warning names exactly the certificates that expired within the
\* last 30 days and whose common name has no active certificate, and is absent
\* when there is none.
C28_ExpiredWithin30Days ==
    Analysed =>
        LET out == calc.out[1]
        IN  NamesExactly(out, {i \in ExpiredWithin(out.parsed, 30) :
                                   ~Replaced(out, out.parsed[i])})

\* what the scanner does: the warning names exactly the certificates that
\* expired fewer than 31 days ago and whose common name has no active
\* certificate, and never a common name that has an active certificate
ExpiredLessThan31DaysNamed ==
    Analysed =>
        LET out == calc.out[1]
        IN  /\ NamesExactly(out, {i \in ExpiredLessThan(out.parsed, 31) :
                                      ~Replaced(out, out.parsed[i])})
            /\ \A k \in ExpiredWarningsOf(out) :
                   \A n \in 1..Len(out.warnings[k].certNames) :
                       ~\E j \in 1..Len(out.activeCerts) :
                           out.activeCerts[j].commonName = out.warnings[k].certNames[n]

\* C29: the active set holds exactly one certificate for each common name that
\* has a certificate not expired, the one of latest not_before among them, and
\* no expired certificate; the active count reported is the number of these
\* common names.
C29_ActiveSet ==
    (calc.fn = "certificates" /\ calc.out # None) =>
        LET out == calc.out[1]
            parsed == parsedCerts(calc.arg[1])
            live == Live(parsed)
            names == {parsed[i].commonName : i \in live}
        IN  /\ \A name \in names :
                   /\ Cardinality({j \in 1..Len(out.activeCerts) :
                                       out.activeCerts[j].commonName = name}) = 1
                   /\ \A j \in 1..Len(out.activeCerts) :
                          out.activeCerts[j].commonName = name =>
                              /\ out.activeCerts[j].id \in live
                              /\ parsed[out.activeCerts[j].id] = out.activeCerts[j]
                              /\ \A i \in live :
                                     parsed[i].commonName = name =>
                                         parsed[i].notBefore <= out.activeCerts[j].notBefore
            /\ \A j \in 1..Len(out.activeCerts) :
                   /\ out.activeCerts[j].commonName \in names
                   /\ out.activeCerts[j].notAfter >= 0
            /\ out.activeCertCount # None =>
                   out.activeCertCount[1] = Cardinality(names)

\* of two live certificates of a name, the later issued one is active although
\* it comes second in the answer, and an expired one of the name is left out
C29_Witness ==
    /\ Analysed
    /\ Len(calc.arg[1]) = 2
    /\ calc.arg[1][1].common_name = calc.arg[1][2].common_name
    /\ calc.arg[1][1].not_after >= 0
    /\ calc.arg[1][2].not_after >= 0
    /\ calc.arg[1][1].not_before < calc.arg[1][2].not_before
    /\ Len(calc.out[1].activeCerts) = 1
    /\ calc.out[1].activeCerts[1].id = 2

\* ---- email authentication policy: C24, C30

\* the analysis of the records found has been made
EmailAnalysed == calc.fn = "emailAuth" /\ calc.out # None

\* the value of the p= tag of a DMARC record: the piece behind a "p=" that
\* begins a tag, in lower case, if the record has such a tag
PolicyTag(dmarc) ==
    LET lower == LowerWords(dmarc)
        at == {k \in 1..(Len(lower) - 1) :
                  lower[k] = "p=" /\ (k = 1 \/ lower[k - 1] \in {" ", ";"})}
    IN  IF at = {} THEN None
        ELSE Some(lower[(CHOOSE k \in at : \A j \in at : k <= j) + 1])

\* the findings about the DMARC policy
DmarcPolicyTexts ==
    {"DMARC policy is 'none' - monitoring only",
     "DMARC policy is 'quarantine' - consider upgrading to 'reject'",
     "DMARC policy not clearly defined"}

\* the findings of texts among those of the analysis, one after the other
FindingsAmong(out, texts) ==
    LET Among(text) == text \in texts
    IN  SelectSeq(out.issues \o out.warnings, Among)

\* C24: the DMARC policy finding is determined by the p= tag of the record
\* alone: none gives the 'monitoring only' warning, quarantine the upgrade
\* warning, reject no policy finding, anything else 'not clearly defined';
\* dmarcEnforced is true exactly when the p= tag is quarantine or reject,
\* whatever the sp=, rua= and pct= tags are.
C24_PolicyTagAlone ==
    (EmailAnalysed /\ calc.arg[1].dmarc # None) =>
        LET out == calc.out[1]
            tag == PolicyTag(calc.arg[1].dmarc[1])
        IN  /\ FindingsAmong(out, DmarcPolicyTexts) =
                   (IF tag = Some("none")
                    THEN <<"DMARC policy is 'none' - monitoring only">>
                    ELSE IF tag = Some("quarantine")
                    THEN <<"DMARC policy is 'quarantine' - consider upgrading to 'reject'">>
                    ELSE IF tag = Some("reject") THEN <<>>
                    ELSE <<"DMARC policy not clearly defined">>)
            /\ out.dmarcEnforced = (tag \in {Some("quarantine"), Some("reject")})

\* the findings about the SPF policy
SpfPolicyTexts ==
    {"No SPF record found", HardFailDeliverability, HardFailCombine,
     "SPF allows all senders (+all)", "SPF uses neutral policy (?all)",
     "SPF record missing 'all' mechanism"}

\* the first row of the SPF policy table that matches the record
SpfRow(spf) ==
    IF spf = None THEN "missing"
    ELSE IF Includes(spf[1], <<"~", "all">>) THEN "~all"
    ELSE IF Includes(spf[1], <<"-", "all">>) THEN "-all"
    ELSE IF Includes(spf[1], <<"+", "all">>) THEN "+all"
    ELSE IF Includes(spf[1], <<"?", "all">>) THEN "?all"
    ELSE IF ~Includes(spf[1], <<"all">>) THEN "no all"
    ELSE "no row"

\* the DMARC record contains p=quarantine or p=reject
ContainsEnforcement(dmarc) ==
    /\ dmarc # None
    /\ \E value \in {"quarantine", "reject"} : Includes(LowerWords(dmarc[1]), <<"p=", value>>)

\* C30: there is at most one SPF policy finding, that of the first matching
\* row in the order missing, ~all, -all, +all, ?all, no 'all': ~all gives no
\* finding, and -all gives the 'deliverability' warning exactly when the DMARC
\* record contains p=quarantine or p=reject and the 'combine with DMARC
\* enforcement' warning otherwise.
C30_OneSpfFinding ==
    EmailAnalysed =>
        LET out == calc.out[1]
            row == SpfRow(calc.arg[1].spf)
            found == FindingsAmong(out, SpfPolicyTexts)
        IN  /\ Len(found) <= 1
            /\ found =
                 (CASE row = "missing" -> <<"No SPF record found">>
                    [] row = "~all" -> <<>>
                    [] row = "-all" ->
                         IF ContainsEnforcement(calc.arg[1].dmarc)
                         THEN <<HardFailDeliverability>> ELSE <<HardFailCombine>>
                    [] row = "+all" -> <<"SPF allows all senders (+all)">>
                    [] row = "?all" -> <<"SPF uses neutral policy (?all)">>
                    [] row = "no all" -> <<"SPF record missing 'all' mechanism">>
                    [] OTHER -> <<>>)
            /\ (HardFailDeliverability \in Range(out.warnings)) =
                   (row = "-all" /\ ContainsEnforcement(calc.arg[1].dmarc))
            /\ (row = "-all" /\ ~ContainsEnforcement(calc.arg[1].dmarc)) =>
                   HardFailCombine \in Range(out.warnings)

\* a record that holds -all and, behind it, ~all gets no SPF finding, under a
\* DMARC record that enforces
C30_Witness ==
    /\ EmailAnalysed
    /\ calc.arg[1].spf # None
    /\ Includes(calc.arg[1].spf[1], <<"-", "all">>)
    /\ Includes(calc.arg[1].spf[1], <<"~", "all">>)
    /\ ContainsEnforcement(calc.arg[1].dmarc)
    /\ FindingsAmong(calc.out[1], SpfPolicyTexts) = <<>>

\* ---- DNS summary: C25

\* the record values the five lookups yielded, all types together
ValuesYielded(lookups) ==
    {<<n, i>> \in (1..Len(lookups)) \X (1..MaxAnswers) :
        /\ lookups[n].ok
        /\ lookups[n].Answer # None
        /\ i <= Len(lookups[n].Answer[1])
        /\ lookups[n].Answer[1][i] # ""}

\* C25: the summary is 'No DNS records found' whenever the five lookups
\* together yield no record value of any type, be it that they failed or that
\* they succeeded with an empty answer, and otherwise 'Found ' and the list of
\* TYPE:count.
C25_SummaryOfNoRecords ==
    (calc.fn = "dns" /\ calc.out # None) =>
        LET summary == calc.out[1].summary
        IN  IF ValuesYielded(calc.arg[1]) = {}
            THEN summary.text = "No DNS records found"
            ELSE /\ summary.text = "Found"
                 /\ summary.recordCounts = recordCounts(calc.out[1].records)

\* ---- saving DKIM selectors: C26

\* the runScanners call of the latest handleSaveDkimSelectors call has
\* returned, the selectors were stored and the rate limit let the call pass
RescanOver ==
    /\ app.rescan # None
    /\ app.rescan[1].saved
    /\ app.pc = "idle"
    /\ app.last # "denied"

\* C26: once the selectors saved for the domain scanned are stored and the
\* rescan that handleSaveDkimSelectors triggers is over, the scanners have
\* run afresh and the Email Authentication result shown was computed with the
\* selectors saved, also when the cache held an aggregate of the domain.
C26_RescanUsesSavedSelectors ==
    RescanOver =>
        /\ app.last = "fresh"
        /\ app.customSelectors[app.rescan[1].domain] = Some(app.rescan[1].selectors)

\* what the scanner does when the cache holds no aggregate of the domain: a
\* rescan that ran afresh was computed with the selectors saved
FreshRescanUsesSavedSelectors ==
    (RescanOver /\ app.last = "fresh") =>
        app.customSelectors[app.rescan[1].domain] = Some(app.rescan[1].selectors)

\* a rescan has run afresh, the entry of the domain having left the cache
FreshRescanReached == RescanOver /\ app.last = "fresh"

====
